---- MODULE Spec2Model ----
(***************************************************************************)
(* The Cascade of holochain (crates/holochain/src/core/state/cascade.rs):  *)
(* retrieval of elements by entry hash or header hash from the vault, the  *)
(* cache and the network, with the CRUD metadata deciding what is live.    *)
(*                                                                         *)
(* Every public method of Cascade is one action.  The answer of the        *)
(* network to each request the method makes is an input of the action.     *)
(* The element store (ElementBuf) and the metadata store (MetadataBuf)     *)
(* are collaborators of the Cascade whose code lies outside the files      *)
(* verified here; they are modelled from their contract.                   *)
(***************************************************************************)
EXTENDS Integers, Sequences, FiniteSets, TLC

VARIABLES dht, element_vault, meta_vault, element_cache, meta_cache, last, merging

vars == <<dht, element_vault, meta_vault, element_cache, meta_cache, last, merging>>

(***************************************************************************)
(* Bounds                                                                  *)
(***************************************************************************)
\* The largest number of items in one answer of the network.
MaxResp == 1

\* The largest number of authorities that answer one request together.
MaxAuthorities == 2

\* The largest number of bytes handed to the deserializer of a hash type.
MaxBytes == 3
MaxResults == 3

(***************************************************************************)
(* The universe of content: hashes stand for the content they address.     *)
(***************************************************************************)
NoEntry == "no_entry"
NoHeader == "no_header"

\* Entry hashes.  e2 is an entry nobody has a header for.
EntryHashes == {"e1", "e2"}

\* Header hashes: three creations of e1, a delete of h2, two links from the
\* base e1 and two removals of the link l1.  x1 is a header of another kind
\* (a Dna header) that a damaged link index may list as a link from e1 or
\* as a removal of the link l2.
HeaderHashes == {"h1", "h2", "h3", "d2", "l1", "l2", "r1", "r2", "x1"}

\* The order of header hashes (the order of their bytes).
HashOrd(h) == CASE h = "h1" -> 1 [] h = "h2" -> 2 [] h = "h3" -> 3 [] h = "d2" -> 4
                [] h = "l1" -> 5 [] h = "l2" -> 6 [] h = "r1" -> 7 [] h = "r2" -> 8
                [] h = "x1" -> 9 [] OTHER -> 0

\* The kind of the header behind a header hash.
HeaderKind(h) == CASE h \in {"h1", "h2", "h3"} -> "Create"
                   [] h = "d2" -> "Delete"
                   [] h \in {"l1", "l2"} -> "CreateLink"
                   [] h \in {"r1", "r2"} -> "DeleteLink"
                   [] h = "x1" -> "Dna"
                   [] OTHER -> "None"

\* header.timestamp(): h2 and h3 are equally old, h1 is younger; the link l2
\* is older than the link l1, the removal r2 is older than the removal r1.
HeaderTimestamp(h) == CASE h = "h1" -> 2 [] h = "h2" -> 1 [] h = "h3" -> 1
                        [] h = "d2" -> 3 [] h = "l1" -> 2 [] h = "l2" -> 1
                        [] h = "r1" -> 3 [] h = "r2" -> 2 [] h = "x1" -> 4
                        [] OTHER -> 0

\* CreateLink.base_address: the key the link index has the header under.
base_address(l) == IF HeaderKind(l) = "CreateLink" \/ l = "x1" THEN "e1" ELSE NoEntry

\* DeleteLink.link_add_address: the CreateLink the link index has the
\* removal under.
link_add_address(r) ==
    CASE r \in {"r1", "r2"} -> "l1" [] r = "x1" -> "l2" [] OTHER -> NoHeader

\* header.entry_data(): the entry hash of a header that carries an entry,
\* as a set of at most one element (an Option).
entry_data(h) == IF HeaderKind(h) \in {"Create", "Update"} THEN {"e1"} ELSE {}

\* Delete.deletes_address: the header a delete removes.
deletes_address(d) == IF d = "d2" THEN "h2" ELSE NoHeader

\* Delete.deletes_entry_address: the entry of the header a delete removes.
deletes_entry_address(d) == IF d = "d2" THEN "e1" ELSE NoEntry

\* An Element: a header and, when it is held, its entry.
Element(h, maybe_entry) ==
    [header |-> h,
     entry  |-> IF maybe_entry = {} THEN NoEntry ELSE CHOOSE e \in maybe_entry : TRUE]

\* TimedHeaderHash order: by timestamp, ties broken by header hash.
TimedLess(a, b) ==
    \/ HeaderTimestamp(a) < HeaderTimestamp(b)
    \/ HeaderTimestamp(a) = HeaderTimestamp(b) /\ HashOrd(a) < HashOrd(b)

\* Iterator::min over TimedHeaderHash, as an Option.
TimedMin(S) == {h \in S : \A o \in S : o = h \/ TimedLess(h, o)}

\* The last element of the BTreeSet<TimedHeaderHash> order, as an Option.
TimedMax(S) == {h \in S : \A o \in S : o = h \/ TimedLess(o, h)}

\* EntryDhtStatus
EntryDhtStatus == {"Live", "Dead", "Pending", "Rejected", "Abandoned", "Conflict",
                   "Withdrawn", "Purged"}

(***************************************************************************)
(* ElementBuf: the content-addressed store of headers and entries.         *)
(***************************************************************************)
EmptyElementBuf == [headers |-> {}, entries |-> {}]

\* ElementBuf::put(signed_header, maybe_entry)
put(buf, element) ==
    [headers |-> buf.headers \cup {element.header},
     entries |-> buf.entries \cup ({element.entry} \ {NoEntry})]

\* ElementBuf::get_header
get_header(buf, h) == IF h \in buf.headers THEN {h} ELSE {}

\* ElementBuf::get_entry
get_entry(buf, e) == IF e \in buf.entries THEN {e} ELSE {}

\* ElementBuf::get_element: the header with its entry when the entry is held.
get_element(buf, h) ==
    IF h \in buf.headers
    THEN {Element(h, entry_data(h) \cap buf.entries)}
    ELSE {}

(***************************************************************************)
(* MetadataBuf: the append-only index of headers, deletes and the status   *)
(* of every entry.                                                         *)
(***************************************************************************)
EmptyMetadataBuf ==
    [store_element |-> {}, headers |-> {}, deletes |-> {}, link_adds |-> {},
     link_removes |-> {}, status |-> [e \in EntryHashes |-> "Dead"]]

\* MetadataBufT::get_headers(entry_hash)
get_headers(meta, e) == {h \in meta.headers : e \in entry_data(h)}

\* MetadataBufT::get_deletes_on_header(header_hash)
get_deletes_on_header(meta, h) == {d \in meta.deletes : deletes_address(d) = h}

\* MetadataBufT::get_deletes_on_entry(entry_hash)
get_deletes_on_entry(meta, e) == {d \in meta.deletes : deletes_entry_address(d) = e}

\* MetadataBufT::get_links_all(key): every link registered under the key.
get_links_all(meta, key) == {l \in meta.link_adds : base_address(l) = key}

\* MetadataBufT::get_link_removes_on_link_add(link_add_hash)
get_link_removes_on_link_add(meta, l) ==
    {r \in meta.link_removes : link_add_address(r) = l}

\* MetadataBufT::get_live_links(key): the links no removal is registered on.
get_live_links(meta, key) ==
    {l \in get_links_all(meta, key) : get_link_removes_on_link_add(meta, l) = {}}

\* MetadataBufT::get_dht_status(entry_hash)
get_dht_status(meta, e) == meta.status[e]

\* MetadataBufT::has_registered_store_element(header_hash)
has_registered_store_element(meta, h) == h \in meta.store_element

\* MetadataBufT::has_registered_store_entry(entry_hash, header_hash)
has_registered_store_entry(meta, e, h) == h \in get_headers(meta, e)

\* MetadataBufT::has_any_registered_store_entry(entry_hash)
has_any_registered_store_entry(meta, e) == get_headers(meta, e) # {}

\* The status the store derives for an entry: Live iff a header of the entry
\* has no delete registered on it.
update_entry_dht_status(meta, e) ==
    IF e \notin EntryHashes THEN meta
    ELSE [meta EXCEPT !.status[e] =
            IF \E h \in get_headers(meta, e) : get_deletes_on_header(meta, h) = {}
            THEN "Live" ELSE "Dead"]

\* MetadataBufT::register_element_header
register_element_header(meta, h) ==
    [meta EXCEPT !.store_element = @ \cup {h}]

\* MetadataBufT::register_header: a header that creates an entry.
register_header(meta, h) ==
    LET m == [meta EXCEPT !.headers = @ \cup {h}]
    IN  IF entry_data(h) = {} THEN meta
        ELSE update_entry_dht_status(m, CHOOSE e \in entry_data(h) : TRUE)

\* MetadataBufT::register_delete: on the deleted header and on its entry.
register_delete(meta, d) ==
    update_entry_dht_status([meta EXCEPT !.deletes = @ \cup {d}],
                            deletes_entry_address(d))

\* MetadataBufT::register_add_link
register_add_link(meta, l) == [meta EXCEPT !.link_adds = @ \cup {l}]

\* MetadataBufT::register_delete_link
register_delete_link(meta, r) == [meta EXCEPT !.link_removes = @ \cup {r}]

\* produce_op_lights_from_elements: the DhtOpLights of one header.
produce_op_lights(h) ==
    CASE HeaderKind(h) = "Create" ->
           <<"StoreElement", "RegisterAgentActivity", "StoreEntry">>
      [] HeaderKind(h) = "Delete" ->
           <<"StoreElement", "RegisterAgentActivity", "RegisterDeletedBy",
             "RegisterDeletedEntryHeader">>
      [] HeaderKind(h) = "CreateLink" ->
           <<"StoreElement", "RegisterAgentActivity", "RegisterAddLink">>
      [] HeaderKind(h) = "DeleteLink" ->
           <<"StoreElement", "RegisterAgentActivity", "RegisterRemoveLink">>
      [] OTHER -> <<"StoreElement", "RegisterAgentActivity">>

\* integrate_single_metadata(op, element_store, meta_store)
integrate_single_metadata(op, h, meta) ==
    CASE op = "StoreElement" -> register_element_header(meta, h)
      [] op = "StoreEntry" -> register_header(meta, h)
      [] op \in {"RegisterDeletedBy", "RegisterDeletedEntryHeader"} ->
           register_delete(meta, h)
      [] op = "RegisterAddLink" -> register_add_link(meta, h)
      [] op = "RegisterRemoveLink" -> register_delete_link(meta, h)
      [] OTHER -> meta

RECURSIVE integrate_ops(_, _, _)
\* for op in op_lights { integrate_single_metadata(op, ..) }
integrate_ops(ops, h, meta) ==
    IF ops = <<>> THEN meta
    ELSE integrate_ops(Tail(ops), h, integrate_single_metadata(Head(ops), h, meta))

(***************************************************************************)
(* The network: what the authorities may answer to one request.  They      *)
(* answer with content published on the DHT, the set pub.                  *)
(***************************************************************************)
\* A response item.  kind is the variant of GetElementResponse; some tells
\* Some(..) from None.  A GetHeader item carries a WireElement: the header,
\* its entry or not, and the delete of that header the authority knows.  A
\* GetEntryFull item carries a RawGetEntryResponse: the entry, its live
\* headers and the deletes on the entry.
Item(kind, some, header, with_entry, deleted, entry, live_headers, deletes) ==
    [kind |-> kind, some |-> some, header |-> header, with_entry |-> with_entry,
     deleted |-> deleted, entry |-> entry, live_headers |-> live_headers,
     deletes |-> deletes]

\* The deletes among hs that remove header h.
DeletesOf(hs, h) == {d \in hs : HeaderKind(d) = "Delete" /\ deletes_address(d) = h}

\* The headers among hs that create entry e.
CreatesOf(hs, e) == {h \in hs : e \in entry_data(h)}

GetHeaderNone == Item("GetHeader", FALSE, NoHeader, FALSE, {}, NoEntry, {}, {})

GetEntryFullNone == Item("GetEntryFull", FALSE, NoHeader, FALSE, {}, NoEntry, {}, {})

GetEntryCollapsed == Item("GetEntryCollapsed", TRUE, NoHeader, FALSE, {}, NoEntry, {}, {})

\* GetHeader(Some(wire_element)): a published header, with its entry or
\* without, alone or with one of its deletes.
GetHeaderItems(pub) ==
    {i \in {Item("GetHeader", TRUE, h, we, del, NoEntry, {}, {}) :
               h \in pub, we \in BOOLEAN, del \in {{}} \cup {{d} : d \in pub}} :
        /\ i.deleted \subseteq DeletesOf(pub, i.header)
        /\ (i.with_entry => entry_data(i.header) # {})}

\* GetEntryFull(Some(raw)): an authority reports each header of the entry as
\* live, or as deleted together with the delete, or not at all.
GetEntryFullItems(pub) ==
    {i \in {Item("GetEntryFull", TRUE, NoHeader, TRUE, {}, e, live, dels) :
               e \in EntryHashes, live \in SUBSET pub, dels \in SUBSET pub} :
        /\ i.live_headers \subseteq CreatesOf(pub, i.entry)
        /\ CreatesOf(pub, i.entry) # {}
        /\ \A d \in i.deletes :
              /\ HeaderKind(d) = "Delete"
              /\ deletes_entry_address(d) = i.entry
              /\ deletes_address(d) \notin i.live_headers}

\* The items of every other kind, one of each.
OtherItems == {GetHeaderNone, GetEntryFullNone, GetEntryCollapsed}

\* A GetLinksResponse: the link creations and removals an authority knows.
GetLinksResponses(pub) ==
    {[link_adds |-> adds, link_removes |-> rems] :
        adds \in SUBSET {l \in pub : HeaderKind(l) = "CreateLink"},
        rems \in SUBSET {r \in pub : HeaderKind(r) = "DeleteLink"}}

\* Lists of at most MaxResp items.
Lists(items) == UNION {[1..n -> items] : n \in 0..MaxResp}

\* The answer to one network request: an error, or a response list.
NetErr == [err |-> TRUE, items |-> <<>>]

NetOk(items) == [err |-> FALSE, items |-> items]

\* The answers to network.get for a header hash.
HeaderAnswers(pub) ==
    {NetErr} \cup {NetOk(l) : l \in Lists(GetHeaderItems(pub) \cup OtherItems)}

\* The answers to network.get for an entry hash.
EntryAnswers(pub) ==
    {NetErr} \cup {NetOk(l) : l \in Lists(GetEntryFullItems(pub) \cup OtherItems)}

\* The answers to network.get_links.
LinksAnswers(pub) ==
    {NetErr} \cup {NetOk(l) : l \in Lists(GetLinksResponses(pub))}

(***************************************************************************)
(* Cascade.  A store context s holds the four stores the Cascade borrows:  *)
(* ev, mv (element_vault, meta_vault, shared borrows) and ec, mc           *)
(* (element_cache, meta_cache, mutable borrows).                           *)
(***************************************************************************)
Stores(ev, mv, ec, mc) == [ev |-> ev, mv |-> mv, ec |-> ec, mc |-> mc]

\* update_stores that integrates the metadata of an element only when the
\* element cache already held the element before the put.
update_stores_meta_if_held(s, element) ==
    [s EXCEPT !.ec = put(s.ec, element),
              !.mc = IF element.header \in s.ec.headers
                     THEN integrate_ops(produce_op_lights(element.header),
                                        element.header, s.mc)
                     ELSE s.mc]

\* update_stores that writes the element and its metadata into the vault.
update_stores_into_vault(s, element) ==
    [s EXCEPT !.ev = put(s.ev, element),
              !.mv = integrate_ops(produce_op_lights(element.header),
                                   element.header, s.mv)]

\* Cascade::update_stores
update_stores(s, element) ==
    LET ec2 == put(s.ec, element)
    IN  [s EXCEPT !.ec = ec2,
                  !.mc = integrate_ops(produce_op_lights(element.header),
                                       element.header, s.mc)]

RECURSIVE integrate_group(_, _)
\* The op lights of every header of an element group, integrated in turn.
integrate_group(hs, meta) ==
    IF hs = {} THEN meta
    ELSE LET h == CHOOSE x \in hs : \A y \in hs : HashOrd(x) <= HashOrd(y)
         IN  integrate_group(hs \ {h}, integrate_ops(produce_op_lights(h), h, meta))

\* update_stores_with_element_group that stores the headers of the group
\* without the entry.
update_stores_with_element_group_no_entry(s, entry, hs) ==
    [s EXCEPT !.ec = [headers |-> s.ec.headers \cup hs, entries |-> s.ec.entries],
              !.mc = integrate_group(hs, s.mc)]

\* Cascade::update_stores_with_element_group
update_stores_with_element_group(s, entry, hs) ==
    [s EXCEPT !.ec = [headers |-> s.ec.headers \cup hs,
                      entries |-> s.ec.entries \cup {entry}],
              !.mc = integrate_group(hs, s.mc)]

RECURSIVE update_stores_all(_, _)
\* for delete in deletes { self.update_stores(element) }
update_stores_all(s, hs) ==
    IF hs = {} THEN s
    ELSE LET h == CHOOSE x \in hs : \A y \in hs : HashOrd(x) <= HashOrd(y)
         IN  update_stores_all(update_stores(s, Element(h, {})), hs \ {h})

\* WireElement::into_element_and_delete, then the two update_stores calls.
merge_wire_element(s, item) ==
    LET element == Element(item.header,
                           IF item.with_entry THEN entry_data(item.header) ELSE {})
        s1 == update_stores(s, element)
    IN  update_stores_all(s1, item.deleted)

\* The result of a fetch: the stores after it and how it ended.
Fetched(s, status) == [s |-> s, status |-> status]

RECURSIVE fetch_header_items_stop_at_invalid(_, _)
\* The loop of fetch_element_via_header ended by the first response that is
\* not a GetHeader.
fetch_header_items_stop_at_invalid(s, items) ==
    IF items = <<>> THEN Fetched(s, "Ok")
    ELSE LET i == Head(items)
         IN  IF i.kind = "GetHeader" /\ i.some
             THEN fetch_header_items_stop_at_invalid(merge_wire_element(s, i),
                                                     Tail(items))
             ELSE IF i.kind = "GetHeader"
                  THEN fetch_header_items_stop_at_invalid(s, Tail(items))
                  ELSE Fetched(s, "Ok")

RECURSIVE fetch_header_items(_, _)
\* The loop of fetch_element_via_header over the response items.
fetch_header_items(s, items) ==
    IF items = <<>> THEN Fetched(s, "Ok")
    ELSE LET i == Head(items)
         IN  IF i.kind = "GetHeader" /\ i.some
             THEN fetch_header_items(merge_wire_element(s, i), Tail(items))
             ELSE fetch_header_items(s, Tail(items))

\* fetch_element_via_header that takes a failed request for an empty answer.
fetch_element_via_header_swallow(s, answer) ==
    fetch_header_items(s, answer.items)

\* fetch_element_via_header that merges the first response item only.
fetch_element_via_header_first_only(s, answer) ==
    IF answer.err THEN Fetched(s, "NetworkErr")
    ELSE fetch_header_items(s, SubSeq(answer.items, 1, 1))

\* Cascade::fetch_element_via_header
fetch_element_via_header(s, answer) ==
    IF answer.err THEN Fetched(s, "NetworkErr")
    ELSE fetch_header_items(s, answer.items)

\* One GetEntryFull(Some(raw)) item merged: the element group, then the
\* deletes (the universe holds no update).
merge_raw_entry(s, item) ==
    update_stores_all(
        update_stores_with_element_group(s, item.entry, item.live_headers),
        item.deletes)

RECURSIVE fetch_entry_items_skip_others(_, _)
\* The loop of fetch_element_via_entry that skips a response of a variant it
\* has no arm for.
fetch_entry_items_skip_others(s, items) ==
    IF items = <<>> THEN Fetched(s, "Ok")
    ELSE LET i == Head(items)
         IN  IF i.kind = "GetEntryFull" /\ i.some
             THEN fetch_entry_items_skip_others(merge_raw_entry(s, i), Tail(items))
             ELSE fetch_entry_items_skip_others(s, Tail(items))

RECURSIVE fetch_entry_items(_, _)
\* The loop of fetch_element_via_entry over the response items.
fetch_entry_items(s, items) ==
    IF items = <<>> THEN Fetched(s, "Ok")
    ELSE LET i == Head(items)
         IN  CASE i.kind = "GetEntryFull" /\ i.some ->
                    fetch_entry_items(merge_raw_entry(s, i), Tail(items))
               [] i.kind = "GetEntryFull" /\ ~i.some ->
                    fetch_entry_items(s, Tail(items))
               [] i.kind = "GetHeader" ->
                    fetch_entry_items(s, Tail(items))
               [] OTHER -> Fetched(s, "Panic")

\* Cascade::fetch_element_via_entry
fetch_element_via_entry(s, answer) ==
    IF answer.err THEN Fetched(s, "NetworkErr")
    ELSE fetch_entry_items(s, answer.items)

RECURSIVE fetch_links_items(_, _)
\* The loop of fetch_links over the GetLinksResponses.
fetch_links_items(s, items) ==
    IF items = <<>> THEN Fetched(s, "Ok")
    ELSE LET links == Head(items)
             s1 == update_stores_all(s, links.link_adds)
         IN  fetch_links_items(update_stores_all(s1, links.link_removes), Tail(items))

\* fetch_links that merges the link creations and drops the removals.
fetch_links_adds_only(s, answer) ==
    IF answer.err THEN Fetched(s, "NetworkErr")
    ELSE Fetched(update_stores_all(s, UNION {answer.items[i].link_adds :
                                                i \in 1..Len(answer.items)}), "Ok")

\* Cascade::fetch_links
fetch_links(s, answer) ==
    IF answer.err THEN Fetched(s, "NetworkErr")
    ELSE fetch_links_items(s, answer.items)

\* Cascade::valid_header
valid_header(s, h) ==
    has_registered_store_element(s.mv, h) \/ has_registered_store_element(s.mc, h)

\* Cascade::valid_entry
valid_entry(s, e) ==
    has_any_registered_store_entry(s.mc, e) \/ has_any_registered_store_entry(s.mv, e)

\* Cascade::valid_element
valid_element(s, h, maybe_entry_hash) ==
    \/ valid_header(s, h)
    \/ \E eh \in maybe_entry_hash :
          \/ has_registered_store_entry(s.mc, eh, h)
          \/ has_registered_store_entry(s.mv, eh, h)

\* The vault first, the cache only when the vault has nothing.
VaultThenCache(r_vault, r_cache) == IF r_vault = {} THEN r_cache ELSE r_vault

\* get_element_local_raw without the check for a valid reason.
get_element_local_raw_unchecked(s, h) ==
    VaultThenCache(get_element(s.ev, h), get_element(s.ec, h))

\* Cascade::get_element_local_raw
get_element_local_raw(s, h) ==
    LET r == VaultThenCache(get_element(s.ev, h), get_element(s.ec, h))
    IN  {el \in r : valid_element(s, el.header, entry_data(el.header))}

\* get_element_local_raw_via_entry that iterates from the oldest header.
get_element_local_raw_via_entry_oldest_first(s, e) ==
    LET headers == get_headers(s.mc, e) \cup get_headers(s.mv, e)
        held == {h \in headers : get_element_local_raw(s, h) # {}}
    IN  UNION {get_element_local_raw(s, h) : h \in TimedMin(held)}

\* Cascade::get_element_local_raw_via_entry: the newest header that is held.
get_element_local_raw_via_entry(s, e) ==
    LET headers == get_headers(s.mc, e) \cup get_headers(s.mv, e)
        held == {h \in headers : get_element_local_raw(s, h) # {}}
    IN  UNION {get_element_local_raw(s, h) : h \in TimedMax(held)}

\* Cascade::get_entry_local_raw
get_entry_local_raw(s, e) ==
    LET r == VaultThenCache(get_entry(s.ev, e), get_entry(s.ec, e))
    IN  {x \in r : valid_entry(s, x)}

\* Cascade::get_header_local_raw_with_sig
get_header_local_raw_with_sig(s, h) ==
    LET r == VaultThenCache(get_header(s.ev, h), get_header(s.ec, h))
    IN  {x \in r : valid_element(s, x, entry_data(x))}

(***************************************************************************)
(* The public methods.  Each yields the stores after the call, the         *)
(* CascadeResult and the number of network requests the call made.         *)
(***************************************************************************)
\* CascadeResult: Ok(val) with val an Option as a set, Err(..) or a panic.
Result(tag, val) == [tag |-> tag, val |-> val]

Out(s, tag, val, calls) == [s |-> s, result |-> Result(tag, val), calls |-> calls]

\* found_local_delete that asks the cache alone.
found_local_delete_cache_only(s, h) == get_deletes_on_header(s.mc, h) # {}

\* found_local_delete of dht_get_header: in_cache()? || in_vault()?
found_local_delete(s, h) ==
    get_deletes_on_header(s.mc, h) # {} \/ get_deletes_on_header(s.mv, h) # {}

\* The read after the fetch without the check for a delete.
live_after_fetch_no_recheck(s, h) == get_element_local_raw(s, h)

\* The read of dht_get_header after its fetch.
live_after_fetch(s, h) ==
    LET is_live == get_deletes_on_header(s.mc, h) = {}
    IN  IF is_live THEN get_element_local_raw(s, h) ELSE {}

\* dht_get_header that fetches before it looks for a local delete.
dht_get_header_fetch_first(s, h, answer) ==
    LET f == fetch_element_via_header(s, answer)
    IN  IF f.status # "Ok" THEN Out(f.s, f.status, {}, 1)
        ELSE IF found_local_delete(f.s, h) THEN Out(f.s, "Ok", {}, 1)
        ELSE Out(f.s, "Ok", get_element_local_raw(f.s, h), 1)

\* dht_get_header that reports a header it does not find as an error.
dht_get_header_none_is_error(s, h, answer) ==
    IF found_local_delete(s, h) THEN Out(s, "Ok", {}, 0)
    ELSE LET f == fetch_element_via_header(s, answer)
         IN  IF f.status # "Ok" THEN Out(f.s, f.status, {}, 1)
             ELSE IF live_after_fetch(f.s, h) = {} THEN Out(f.s, "NotFoundErr", {}, 1)
             ELSE Out(f.s, "Ok", live_after_fetch(f.s, h), 1)

\* Cascade::dht_get_header
dht_get_header(s, h, answer) ==
    IF found_local_delete(s, h) THEN Out(s, "Ok", {}, 0)
    ELSE LET f == fetch_element_via_header(s, answer)
         IN  IF f.status # "Ok" THEN Out(f.s, f.status, {}, 1)
             ELSE Out(f.s, "Ok", live_after_fetch(f.s, h), 1)

\* The headers of an entry the cache has no delete for.
live_headers_in_cache(s, e) ==
    {h \in get_headers(s.mc, e) : get_deletes_on_header(s.mc, h) = {}}

\* The Search that answers with any element held for an entry not Live.
oldest_live_element_raw_fallback(s, e) ==
    IF get_dht_status(s.mc, e) = "Live"
    THEN LET h == TimedMin(live_headers_in_cache(s, e))
         IN  [search |-> "Found",
              element |-> UNION {get_element_local_raw(s, x) : x \in h}, header |-> h]
    ELSE [search |-> "Found", element |-> get_element_local_raw_via_entry(s, e),
          header |-> {}]

\* The Search that takes the newest of the live headers, not the oldest.
oldest_live_element_newest(s, e) ==
    IF get_dht_status(s.mc, e) = "Live"
    THEN LET h == TimedMax(live_headers_in_cache(s, e))
         IN  [search |-> "Found",
              element |-> UNION {get_element_local_raw(s, x) : x \in h}, header |-> h]
    ELSE [search |-> "NotInCascade", element |-> {}, header |-> {}]

\* oldest_live_element that takes a Live status without a live header for
\* an entry that is not there.
oldest_live_element_lenient(s, e) ==
    IF get_dht_status(s.mc, e) = "Live" /\ live_headers_in_cache(s, e) # {}
    THEN LET oldest_live_header == TimedMin(live_headers_in_cache(s, e))
             el == UNION {get_element_local_raw(s, h) : h \in oldest_live_header}
         IN  IF el # {}
             THEN [search |-> "Found", element |-> el, header |-> oldest_live_header]
             ELSE [search |-> "Continue", element |-> {}, header |-> oldest_live_header]
    ELSE [search |-> "NotInCascade", element |-> {}, header |-> {}]

\* The Search of dht_get_entry after its fetch.
oldest_live_element(s, e) ==
    IF get_dht_status(s.mc, e) = "Live"
    THEN LET oldest_live_header == TimedMin(live_headers_in_cache(s, e))
         IN  IF oldest_live_header = {}
             THEN [search |-> "Panic", element |-> {}, header |-> {}]
             ELSE LET el == UNION {get_element_local_raw(s, h) : h \in oldest_live_header}
                  IN  IF el # {}
                      THEN [search |-> "Found", element |-> el, header |-> oldest_live_header]
                      ELSE [search |-> "Continue", element |-> {},
                            header |-> oldest_live_header]
    ELSE [search |-> "NotInCascade", element |-> {}, header |-> {}]

\* Whether dht_get_entry goes on to dht_get_header after its first fetch.
continues(s, e, answer) ==
    LET f == fetch_element_via_entry(s, answer)
    IN  f.status = "Ok" /\ oldest_live_element(f.s, e).search = "Continue"

\* dht_get_entry that answers from the local stores when it can and asks
\* the network only when it cannot.
dht_get_entry_local_first(s, e, answer, answer2) ==
    IF oldest_live_element(s, e).search \in {"Found", "NotInCascade"}
    THEN Out(s, "Ok", oldest_live_element(s, e).element, 0)
    ELSE LET f == fetch_element_via_entry(s, answer)
         IN  IF f.status # "Ok" THEN Out(f.s, f.status, {}, 1)
             ELSE Out(f.s, "Ok", oldest_live_element(f.s, e).element, 1)

\* dht_get_entry that gives up what the first answer merged when the second
\* request fails.
dht_get_entry_undoes_merge(s, e, answer, answer2) ==
    LET f == fetch_element_via_entry(s, answer)
    IN  IF f.status # "Ok" THEN Out(f.s, f.status, {}, 1)
        ELSE LET found == oldest_live_element(f.s, e)
             IN  CASE found.search = "Found" -> Out(f.s, "Ok", found.element, 1)
                   [] found.search = "Continue" ->
                        LET o == dht_get_header(f.s, CHOOSE h \in found.header : TRUE,
                                                answer2)
                        IN  IF o.result.tag = "NetworkErr"
                            THEN Out(s, "NetworkErr", {}, 2)
                            ELSE [o EXCEPT !.calls = @ + 1]
                   [] found.search = "Panic" -> Out(f.s, "Panic", {}, 1)
                   [] OTHER -> Out(f.s, "Ok", {}, 1)

\* Cascade::dht_get_entry
dht_get_entry(s, e, answer, answer2) ==
    LET f == fetch_element_via_entry(s, answer)
    IN  IF f.status # "Ok" THEN Out(f.s, f.status, {}, 1)
        ELSE LET found == oldest_live_element(f.s, e)
             IN  CASE found.search = "Found" -> Out(f.s, "Ok", found.element, 1)
                   [] found.search = "Continue" ->
                        LET o == dht_get_header(f.s, CHOOSE h \in found.header : TRUE,
                                                answer2)
                        IN  [o EXCEPT !.calls = @ + 1]
                   [] found.search = "Panic" -> Out(f.s, "Panic", {}, 1)
                   [] OTHER -> Out(f.s, "Ok", {}, 1)

\* An EntryHashed as a caller receives it.
EntryOnly(es) == {Element(NoHeader, {e}) : e \in es}

\* A SignedHeaderHashed as a caller receives it.
HeaderOnly(hs) == {Element(h, {}) : h \in hs}

\* Cascade::retrieve_entry
retrieve_entry(s, e, answer) ==
    IF get_entry_local_raw(s, e) # {}
    THEN Out(s, "Ok", EntryOnly(get_entry_local_raw(s, e)), 0)
    ELSE LET f == fetch_element_via_entry(s, answer)
         IN  IF f.status # "Ok" THEN Out(f.s, f.status, {}, 1)
             ELSE Out(f.s, "Ok", EntryOnly(get_entry_local_raw(f.s, e)), 1)

\* Cascade::retrieve_header
retrieve_header(s, h, answer) ==
    IF get_header_local_raw_with_sig(s, h) # {}
    THEN Out(s, "Ok", HeaderOnly(get_header_local_raw_with_sig(s, h)), 0)
    ELSE LET f == fetch_element_via_header(s, answer)
         IN  IF f.status # "Ok" THEN Out(f.s, f.status, {}, 1)
             ELSE Out(f.s, "Ok", HeaderOnly(get_header_local_raw_with_sig(f.s, h)), 1)

\* Cascade::retrieve, AnyDht::Entry
retrieve_via_entry(s, e, answer) ==
    IF get_element_local_raw_via_entry(s, e) # {}
    THEN Out(s, "Ok", get_element_local_raw_via_entry(s, e), 0)
    ELSE LET f == fetch_element_via_entry(s, answer)
         IN  IF f.status # "Ok" THEN Out(f.s, f.status, {}, 1)
             ELSE Out(f.s, "Ok", get_element_local_raw_via_entry(f.s, e), 1)

\* retrieve by header that asks the network whatever is held locally.
retrieve_via_header_always_fetch(s, h, answer) ==
    LET f == fetch_element_via_header(s, answer)
    IN  IF f.status # "Ok" THEN Out(f.s, f.status, {}, 1)
        ELSE Out(f.s, "Ok", get_element_local_raw(f.s, h), 1)

\* retrieve by header that leaves out a header with a delete registered.
retrieve_via_header_live_only(s, h, answer) ==
    IF get_element_local_raw(s, h) # {}
    THEN Out(s, "Ok", live_after_fetch(s, h), 0)
    ELSE LET f == fetch_element_via_header(s, answer)
         IN  IF f.status # "Ok" THEN Out(f.s, f.status, {}, 1)
             ELSE Out(f.s, "Ok", live_after_fetch(f.s, h), 1)

\* Cascade::retrieve, AnyDht::Header
retrieve_via_header(s, h, answer) ==
    IF get_element_local_raw(s, h) # {}
    THEN Out(s, "Ok", get_element_local_raw(s, h), 0)
    ELSE LET f == fetch_element_via_header(s, answer)
         IN  IF f.status # "Ok" THEN Out(f.s, f.status, {}, 1)
             ELSE Out(f.s, "Ok", get_element_local_raw(f.s, h), 1)

\* Cascade::retrieve: by the role of the hash.
retrieve(s, hash, answer) ==
    IF hash \in EntryHashes THEN retrieve_via_entry(s, hash, answer)
    ELSE retrieve_via_header(s, hash, answer)

\* Cascade::dht_get: by the role of the hash.
dht_get(s, hash, answer, answer2) ==
    IF hash \in EntryHashes THEN dht_get_entry(s, hash, answer, answer2)
    ELSE dht_get_header(s, hash, answer)

\* Whether every header of hs converts to the concrete type kind (TryFrom).
converts(hs, kind) == \A h \in hs : HeaderKind(h) = kind

\* Cascade::render_headers: the headers that resolve locally; the others
\* are skipped.
render_headers(s, hs) == {h \in hs : get_header_local_raw_with_sig(s, h) # {}}

\* Cascade::create_entry_details (the universe holds no update)
create_entry_details(s, e) ==
    IF get_entry_local_raw(s, e) = {} THEN Result("Ok", {})
    ELSE LET headers == render_headers(s, get_headers(s.mc, e))
             deletes == render_headers(s, get_deletes_on_entry(s.mc, e))
         IN  IF ~converts(deletes, "Delete") THEN Result("ConversionErr", {})
             ELSE Result("Ok", {[entry |-> e, headers |-> headers, deletes |-> deletes,
                                 entry_dht_status |-> get_dht_status(s.mc, e)]})

\* create_element_details that gives nothing for a header with a delete
\* registered, as dht_get does.
create_element_details_live_only(s, h) ==
    IF get_element_local_raw(s, h) = {} \/ get_deletes_on_header(s.mc, h) # {}
    THEN Result("Ok", {})
    ELSE Result("Ok", {[element |-> el, deletes |-> {}] :
                           el \in get_element_local_raw(s, h)})

\* Cascade::create_element_details
create_element_details(s, h) ==
    IF get_element_local_raw(s, h) = {} THEN Result("Ok", {})
    ELSE LET deletes == render_headers(s, get_deletes_on_header(s.mc, h))
         IN  IF ~converts(deletes, "Delete") THEN Result("ConversionErr", {})
             ELSE Result("Ok", {[element |-> el, deletes |-> deletes] :
                                    el \in get_element_local_raw(s, h)})

\* Cascade::get_entry_details
get_entry_details(s, e, answer) ==
    LET f == fetch_element_via_entry(s, answer)
    IN  IF f.status # "Ok" THEN Out(f.s, f.status, {}, 1)
        ELSE [s |-> f.s, result |-> create_entry_details(f.s, e), calls |-> 1]

\* Cascade::get_header_details
get_header_details(s, h, answer) ==
    LET f == fetch_element_via_header(s, answer)
    IN  IF f.status # "Ok" THEN Out(f.s, f.status, {}, 1)
        ELSE [s |-> f.s, result |-> create_element_details(f.s, h), calls |-> 1]

\* Cascade::get_details: by the role of the hash.
get_details(s, hash, answer) ==
    IF hash \in EntryHashes THEN get_entry_details(s, hash, answer)
    ELSE get_header_details(s, hash, answer)

\* dht_get_links that returns every link, removed or not.
dht_get_links_all(s, key, answer) ==
    LET f == fetch_links(s, answer)
    IN  IF f.status # "Ok" THEN Out(f.s, f.status, {}, 1)
        ELSE Out(f.s, "Ok", get_links_all(f.s.mc, key), 1)

\* dht_get_links that reads the live links before the merge of the answer.
dht_get_links_stale(s, key, answer) ==
    LET f == fetch_links(s, answer)
    IN  IF f.status # "Ok" THEN Out(f.s, f.status, {}, 1)
        ELSE Out(f.s, "Ok", get_live_links(s.mc, key), 1)

\* dht_get_links that adds the live links of the vault metadata.
dht_get_links_with_vault(s, key, answer) ==
    LET f == fetch_links(s, answer)
    IN  IF f.status # "Ok" THEN Out(f.s, f.status, {}, 1)
        ELSE Out(f.s, "Ok", get_live_links(f.s.mc, key) \cup get_live_links(f.s.mv, key), 1)

\* Cascade::dht_get_links
dht_get_links(s, key, answer) ==
    LET f == fetch_links(s, answer)
    IN  IF f.status # "Ok" THEN Out(f.s, f.status, {}, 1)
        ELSE Out(f.s, "Ok", get_live_links(f.s.mc, key), 1)

RECURSIVE SortTimed(_)
\* The iteration order of a BTreeSet or BTreeMap of TimedHeaderHash.
SortTimed(hs) ==
    IF hs = {} THEN <<>>
    ELSE LET h == CHOOSE x \in TimedMin(hs) : TRUE
         IN  <<h>> \o SortTimed(hs \ {h})

RECURSIVE render_link_details(_, _, _)
\* The loop of get_link_details over the links: a link or a removal whose
\* element does not resolve locally is left out.
render_link_details(s, links, result) ==
    IF links = <<>> THEN result
    ELSE LET link_add == Head(links)
             link_removes ==
                 SortTimed({r \in get_link_removes_on_link_add(s.mc, link_add) :
                               get_element_local_raw(s, r) # {}})
         IN  IF get_element_local_raw(s, link_add) # {}
             THEN render_link_details(s, Tail(links),
                      Append(result, [create |-> link_add, removes |-> link_removes]))
             ELSE render_link_details(s, Tail(links), result)

\* Whether every element get_link_details resolves converts to its type.
link_details_convert(pairs) ==
    \A i \in 1..Len(pairs) :
        /\ HeaderKind(pairs[i].create) = "CreateLink"
        /\ \A j \in 1..Len(pairs[i].removes) :
              HeaderKind(pairs[i].removes[j]) = "DeleteLink"

RECURSIVE SortByHash(_)
\* The headers hs in the order of their hashes alone.
SortByHash(hs) ==
    IF hs = {} THEN <<>>
    ELSE LET h == CHOOSE x \in hs : \A y \in hs : HashOrd(x) <= HashOrd(y)
         IN  <<h>> \o SortByHash(hs \ {h})

\* get_link_details that goes through the creates in the order of their
\* hashes, whatever their timestamps.
get_link_details_by_hash(s, key, answer) ==
    LET f == fetch_links(s, answer)
    IN  IF f.status # "Ok" THEN Out(f.s, f.status, <<>>, 1)
        ELSE LET pairs == render_link_details(f.s,
                              SortByHash(get_links_all(f.s.mc, key)), <<>>)
             IN  IF link_details_convert(pairs) THEN Out(f.s, "Ok", pairs, 1)
                 ELSE Out(f.s, "ConversionErr", <<>>, 1)

\* get_link_details that skips a record whose header is not of the
\* expected type and returns the others.
get_link_details_skip_wrong_type(s, key, answer) ==
    LET f == fetch_links(s, answer)
    IN  IF f.status # "Ok" THEN Out(f.s, f.status, <<>>, 1)
        ELSE LET pairs == render_link_details(f.s,
                              SortTimed(get_links_all(f.s.mc, key)), <<>>)
                 typed(p) == [create |-> p.create,
                              removes |-> SelectSeq(p.removes,
                                  LAMBDA r : HeaderKind(r) = "DeleteLink")]
                 kept == SelectSeq(pairs, LAMBDA p : HeaderKind(p.create) = "CreateLink")
             IN  Out(f.s, "Ok", [i \in 1..Len(kept) |-> typed(kept[i])], 1)

\* get_link_details that leaves out a create when one of the removes
\* registered on it does not resolve locally.
get_link_details_complete_only(s, key, answer) ==
    LET f == fetch_links(s, answer)
    IN  IF f.status # "Ok" THEN Out(f.s, f.status, <<>>, 1)
        ELSE LET all_resolve(l) ==
                     \A r \in get_link_removes_on_link_add(f.s.mc, l) :
                         get_element_local_raw(f.s, r) # {}
                 pairs == render_link_details(f.s,
                              SortTimed({l \in get_links_all(f.s.mc, key) :
                                            all_resolve(l)}), <<>>)
             IN  IF link_details_convert(pairs) THEN Out(f.s, "Ok", pairs, 1)
                 ELSE Out(f.s, "ConversionErr", <<>>, 1)

\* Cascade::get_link_details
get_link_details(s, key, answer) ==
    LET f == fetch_links(s, answer)
    IN  IF f.status # "Ok" THEN Out(f.s, f.status, <<>>, 1)
        ELSE LET pairs == render_link_details(f.s,
                              SortTimed(get_links_all(f.s.mc, key)), <<>>)
             IN  IF link_details_convert(pairs) THEN Out(f.s, "Ok", pairs, 1)
                 ELSE Out(f.s, "ConversionErr", <<>>, 1)

(***************************************************************************)
(* The state: the content published on the DHT, the vault and the cache,   *)
(* and the record of the last call.                                        *)
(***************************************************************************)
RECURSIVE integrate_all(_, _)
\* The integration of the headers hs into a metadata store.
integrate_all(hs, meta) ==
    IF hs = {} THEN meta
    ELSE LET h == CHOOSE x \in hs : \A y \in hs : HashOrd(x) <= HashOrd(y)
         IN  integrate_all(hs \ {h}, integrate_ops(produce_op_lights(h), h, meta))

\* An element store that holds the elements of the headers hs.
HoldingElements(hs) ==
    [headers |-> hs, entries |-> UNION {entry_data(h) : h \in hs}]

\* What may be published on the DHT in one run: three creations of an entry,
\* or creations and a delete, or links and a removal.
DhtChoices == {{"h1", "h2", "h3"}, {"h1", "h2", "d2"}, {"l1", "l2", "r1"}}

\* What a vault may hold of the published content.
HeldChoices == {{}, {"h2"}, {"h1", "h2"}, {"h1", "h2", "h3"}, {"h2", "d2"}, {"d2"},
                {"l1"}, {"l1", "l2"}, {"l1", "r1"}, {"r1"}}

\* The vaults of a cell: the elements it authored or received as an
\* authority (held), all of them integrated into its metadata or none yet.
Vaults(pub) ==
    {[held |-> held, integrated |-> integrated] :
        held \in {x \in HeldChoices : x \subseteq pub},
        integrated \in {x \in HeldChoices : x \subseteq pub}}

\* The statuses of EntryDhtStatus other than Live.
NotLive == EntryDhtStatus \ {"Live"}

\* No merge is under way: every call of Spec merges in one step.
NoMerges == <<>>

\* No call is running and none has returned.
Idle == [op |-> "idle", arg |-> "none", answers |-> <<>>,
         result |-> Result("Ok", {}), calls |-> 0,
         pre |-> Stores(EmptyElementBuf, EmptyMetadataBuf, EmptyElementBuf,
                        EmptyMetadataBuf)]

TypeOK ==
    /\ dht \in DhtChoices
    /\ dht \subseteq HeaderHashes
    /\ element_vault.headers \subseteq dht
    /\ element_cache.headers \subseteq dht
    /\ meta_cache.status \in [EntryHashes -> EntryDhtStatus]
    /\ last.calls \in 0..2
    /\ last.calls = Len(last.answers)

\* The vault holds some of the published content.  The cache holds no
\* element and reports Dead for an entry it has no header of; where the
\* vault holds the creation h2, the cache may report any status but Live.
Init ==
    /\ dht \in DhtChoices
    /\ \E v \in Vaults(dht), st \in NotLive :
          /\ v.integrated \in {v.held, {}}
          /\ st = "Dead" \/ (v.held = {"h2"} /\ v.integrated = {"h2"})
          /\ element_vault = HoldingElements(v.held)
          /\ meta_vault = integrate_all(v.integrated, EmptyMetadataBuf)
          /\ meta_cache = [EmptyMetadataBuf EXCEPT !.status["e1"] = st]
    /\ element_cache = EmptyElementBuf
    /\ last = Idle
    /\ merging = NoMerges

\* The stores as a Cascade borrows them.
Now == Stores(element_vault, meta_vault, element_cache, meta_cache)

\* A call returns: the stores it leaves and the record of what it did.
Returns(op, arg, answers, o) ==
    /\ element_vault' = o.s.ev
    /\ meta_vault' = o.s.mv
    /\ element_cache' = o.s.ec
    /\ meta_cache' = o.s.mc
    /\ last' = [op |-> op, arg |-> arg, answers |-> SubSeq(answers, 1, o.calls),
                result |-> o.result, calls |-> o.calls, pre |-> Now]
    /\ UNCHANGED <<dht, merging>>

DhtGetHeader ==
    /\ last.op = "idle"
    /\ \E h \in dht, a \in HeaderAnswers(dht) :
          Returns("dht_get_header", h, <<a>>, dht_get(Now, h, a, a))

DhtGetEntry ==
    /\ last.op = "idle"
    /\ \E e \in EntryHashes, a \in EntryAnswers(dht) :
          IF continues(Now, e, a)
          THEN \E a2 \in HeaderAnswers(dht) :
                  Returns("dht_get_entry", e, <<a, a2>>, dht_get(Now, e, a, a2))
          ELSE Returns("dht_get_entry", e, <<a>>, dht_get(Now, e, a, a))

RetrieveEntry ==
    /\ last.op = "idle"
    /\ \E e \in EntryHashes, a \in EntryAnswers(dht) :
          Returns("retrieve_entry", e, <<a>>, retrieve_entry(Now, e, a))

RetrieveHeader ==
    /\ last.op = "idle"
    /\ \E h \in dht, a \in HeaderAnswers(dht) :
          Returns("retrieve_header", h, <<a>>, retrieve_header(Now, h, a))

RetrieveViaEntry ==
    /\ last.op = "idle"
    /\ \E e \in EntryHashes, a \in EntryAnswers(dht) :
          Returns("retrieve", e, <<a>>, retrieve(Now, e, a))

RetrieveViaHeader ==
    /\ last.op = "idle"
    /\ \E h \in dht, a \in HeaderAnswers(dht) :
          Returns("retrieve", h, <<a>>, retrieve(Now, h, a))

GetEntryDetails ==
    /\ last.op = "idle"
    /\ \E e \in EntryHashes, a \in EntryAnswers(dht) :
          Returns("get_entry_details", e, <<a>>, get_details(Now, e, a))

GetHeaderDetails ==
    /\ last.op = "idle"
    /\ \E h \in dht, a \in HeaderAnswers(dht) :
          Returns("get_header_details", h, <<a>>, get_details(Now, h, a))

DhtGetLinks ==
    /\ last.op = "idle"
    /\ \E key \in EntryHashes, a \in LinksAnswers(dht) :
          Returns("dht_get_links", key, <<a>>, dht_get_links(Now, key, a))

GetLinkDetails ==
    /\ last.op = "idle"
    /\ \E key \in EntryHashes, a \in LinksAnswers(dht) :
          Returns("get_link_details", key, <<a>>, get_link_details(Now, key, a))

\* The Cascade is dropped after the call; its caller keeps the stores.
Drop ==
    /\ last.op # "idle"
    /\ last' = Idle
    /\ UNCHANGED <<dht, element_vault, meta_vault, element_cache, meta_cache, merging>>

Next ==
    \/ DhtGetHeader
    \/ DhtGetEntry
    \/ RetrieveEntry
    \/ RetrieveHeader
    \/ RetrieveViaEntry
    \/ RetrieveViaHeader
    \/ GetEntryDetails
    \/ GetHeaderDetails
    \/ DhtGetLinks
    \/ GetLinkDetails
    \/ Drop

Spec == Init /\ [][Next]_vars

(***************************************************************************)
(* Properties.  They read the record of the last call: its stores before   *)
(* (last.pre) and the stores now, the answers of the network and the       *)
(* result.                                                                 *)
(***************************************************************************)
\* Ok(None)
OkNone == Result("Ok", {})

\* A delete that removes header h is registered in the vault or the cache
\* metadata of the stores s.
LocallyDeleted(s, h) ==
    \E d \in s.mc.deletes \cup s.mv.deletes : deletes_address(d) = h

\* The cache of the stores s is the cache now.
CacheUnchangedSince(s) == element_cache = s.ec /\ meta_cache = s.mc

\* The element of header h is physically in the vault or the cache of s.
PhysicallyHeld(s, h) == h \in s.ev.headers \cup s.ec.headers

\* C1: a header with a delete registered in the vault or the cache metadata
\* when dht_get_header is called is never returned: the call returns None.
C1_DeletedHeaderNeverReturned ==
    (last.op = "dht_get_header" /\ LocallyDeleted(last.pre, last.arg))
        => last.result = OkNone

\* C1 happens: the delete is known to the vault alone, the element of the
\* header is held, and the call returned None.
C1_Witness ==
    /\ last.op = "dht_get_header"
    /\ \E d \in last.pre.mv.deletes : deletes_address(d) = last.arg
    /\ last.pre.mc.deletes = {}
    /\ PhysicallyHeld(last.pre, last.arg)
    /\ last.result = OkNone

\* C2: with a delete on H registered locally, dht_get_header(H) returns
\* before the network: no request is made and the cache is as it was.
C2_LocalDeleteNoNetwork ==
    (last.op = "dht_get_header" /\ LocallyDeleted(last.pre, last.arg))
        => (last.calls = 0 /\ last.answers = <<>> /\ CacheUnchangedSince(last.pre))

\* C2 happens: the delete is in the cache metadata, no request was made.
C2_Witness ==
    /\ last.op = "dht_get_header"
    /\ \E d \in last.pre.mc.deletes : deletes_address(d) = last.arg
    /\ last.calls = 0
    /\ CacheUnchangedSince(last.pre)

\* Every GetHeader(Some) item of the answer a is merged into the cache.
HeaderAnswerMerged(a) ==
    \A i \in 1..Len(a.items) :
        (a.items[i].kind = "GetHeader" /\ a.items[i].some) =>
            /\ a.items[i].header \in element_cache.headers
            /\ a.items[i].header \in meta_cache.store_element
            /\ a.items[i].deleted \subseteq element_cache.headers
            /\ a.items[i].deleted \subseteq meta_cache.deletes

\* C3: with no delete on H known locally, dht_get_header(H) makes one
\* request, merges the answer into the cache and checks again: when a delete
\* on H is registered after the merge the call returns None, and an Element
\* is returned only when none is.
C3_FetchMergeRecheck ==
    (last.op = "dht_get_header" /\ ~LocallyDeleted(last.pre, last.arg)) =>
        /\ last.calls = 1
        /\ (~last.answers[1].err => HeaderAnswerMerged(last.answers[1]))
        /\ (LocallyDeleted(Now, last.arg) => last.result.val = {})
        /\ (last.result.val # {} =>
                /\ last.result.tag = "Ok"
                /\ \A el \in last.result.val : el.header = last.arg
                /\ PhysicallyHeld(Now, last.arg))

\* C3 happens: the answer brought the delete of the header asked for, and
\* the call returned None although the element is now held.
C3_Witness ==
    /\ last.op = "dht_get_header"
    /\ ~LocallyDeleted(last.pre, last.arg)
    /\ LocallyDeleted(Now, last.arg)
    /\ PhysicallyHeld(Now, last.arg)
    /\ last.calls = 1
    /\ last.result = OkNone

\* The fetch of the last call did not fail: no answer was an error and no
\* panic ended the call.
FetchSucceeded ==
    /\ last.result.tag \notin {"NetworkErr", "Panic"}
    /\ \A i \in 1..Len(last.answers) : ~last.answers[i].err

\* C4: for an entry whose status is Dead, Pending, Rejected, Abandoned,
\* Conflict, Withdrawn or Purged, dht_get_entry returns no Element, and
\* Ok(None) once its fetch has succeeded, also when an Element of the entry
\* is physically in the vault or the cache.
C4_NotLiveEntryIsNone ==
    (last.op = "dht_get_entry" /\ meta_cache.status[last.arg] # "Live") =>
        /\ last.result.val = {}
        /\ (FetchSucceeded => last.result = OkNone)

\* C4 happens: the entry is Dead, an Element of it is in the cache with its
\* entry, and the call returned None.
C4_Witness ==
    /\ last.op = "dht_get_entry"
    /\ meta_cache.status[last.arg] = "Dead"
    /\ \E h \in element_cache.headers : last.arg \in entry_data(h)
    /\ last.arg \in element_cache.entries
    /\ FetchSucceeded
    /\ last.result = OkNone

\* The headers of entry e registered in the cache metadata with no delete
\* registered on them there.
UndeletedHeaders(e) ==
    {h \in meta_cache.headers :
        /\ e \in entry_data(h)
        /\ ~\E d \in meta_cache.deletes : deletes_address(d) = h}

\* h is before o: the older timestamp, or the same timestamp and the
\* smaller header hash.
Before(h, o) ==
    \/ HeaderTimestamp(h) < HeaderTimestamp(o)
    \/ (HeaderTimestamp(h) = HeaderTimestamp(o) /\ HashOrd(h) < HashOrd(o))

RetrieveOps == {"retrieve", "retrieve_entry", "retrieve_header"}

ElementOps == RetrieveOps \cup {"dht_get_header", "dht_get_entry",
                                "get_entry_details", "get_header_details"}

\* The metadata headers of the vault and the cache of s that create entry e.
RegisteredHeadersOf(s, e) ==
    {h \in s.mv.headers \cup s.mc.headers : e \in entry_data(h)}

\* The address a is physically in the vault or the cache of s: the entry in
\* an element store for an entry hash, the header for a header hash.
PresentLocally(s, a) ==
    IF a \in EntryHashes THEN a \in s.ev.entries \cup s.ec.entries
    ELSE PhysicallyHeld(s, a)

\* The address a is in the vault or the cache of s and their metadata names
\* it: a header registered as a stored element or as a header of its entry;
\* an entry with a registered header (for retrieve, one whose Element is
\* held).
LocallyAnswerable(s, op, a) ==
    CASE a \notin EntryHashes ->
           /\ PhysicallyHeld(s, a)
           /\ a \in s.mv.store_element \cup s.mc.store_element
                    \cup s.mv.headers \cup s.mc.headers
      [] op = "retrieve_entry" ->
           /\ a \in s.ev.entries \cup s.ec.entries
           /\ RegisteredHeadersOf(s, a) # {}
      [] OTHER -> \E h \in RegisteredHeadersOf(s, a) : PhysicallyHeld(s, h)

\* The value of the last result is data of the address asked for.
ResultIsOfArg ==
    \A el \in last.result.val :
        IF last.arg \in EntryHashes
        THEN IF last.op = "retrieve_entry" THEN el.entry = last.arg
             ELSE last.arg \in entry_data(el.header)
        ELSE el.header = last.arg

\* C6 as stated: an address present in the vault or the cache is answered
\* by retrieve, retrieve_entry and retrieve_header with the local data and
\* no network request.
C6_PresentMeansNoNetwork ==
    (last.op \in RetrieveOps /\ PresentLocally(last.pre, last.arg)) =>
        (last.calls = 0 /\ last.result.tag = "Ok" /\ last.result.val # {})

\* C6 amended: an address present in the vault or the cache and named by
\* their metadata is answered by retrieve, retrieve_entry and
\* retrieve_header with the local data, no network request and no write to
\* the cache.
C6_ValidLocalMeansNoNetwork ==
    (last.op \in RetrieveOps /\ LocallyAnswerable(last.pre, last.op, last.arg)) =>
        /\ last.calls = 0
        /\ last.result.tag = "Ok"
        /\ last.result.val # {}
        /\ ResultIsOfArg
        /\ CacheUnchangedSince(last.pre)

\* C6 happens: retrieve by entry hash answered from the cache alone, the
\* vault holding nothing of the entry.
C6_Witness ==
    /\ last.op = "retrieve"
    /\ last.arg \in EntryHashes
    /\ LocallyAnswerable(last.pre, last.op, last.arg)
    /\ last.arg \notin last.pre.ev.entries
    /\ last.calls = 0
    /\ last.result.val # {}

\* C7: retrieve, retrieve_entry and retrieve_header filter nothing by
\* liveness: when they return Ok, they return data exactly when the address
\* is held and named by the metadata after the call, whatever deletes are
\* registered and whatever the status of the entry.
C7_RetrieveNoLivenessFilter ==
    (last.op \in RetrieveOps /\ last.result.tag = "Ok") =>
        /\ (last.result.val # {} <=> LocallyAnswerable(Now, last.op, last.arg))
        /\ ResultIsOfArg

\* C7 happens: retrieve returned the Element of a header with a delete
\* registered, whose entry the cache reports Dead.
C7_Witness ==
    /\ last.op = "retrieve"
    /\ last.arg \notin EntryHashes
    /\ LocallyDeleted(Now, last.arg)
    /\ \E e \in entry_data(last.arg) : meta_cache.status[e] = "Dead"
    /\ last.result.tag = "Ok"
    /\ last.result.val # {}

\* C8: a call whose network request failed returns the failure as an
\* error, never a value.
C8_NetworkFailurePropagated ==
    (last.op # "idle" /\ \E i \in 1..Len(last.answers) : last.answers[i].err) =>
        last.result.tag = "NetworkErr"

\* C8 happens: the request of a get failed while the Element asked for was
\* held and named by the vault, and the call returned the error.
C8_Witness ==
    /\ last.op = "dht_get_header"
    /\ last.calls = 1
    /\ last.answers[1].err
    /\ last.arg \in last.pre.ev.headers
    /\ last.arg \in last.pre.mv.store_element
    /\ last.result.tag = "NetworkErr"

\* Nothing in the stores s refers to the address a.
Unknown(s, a) ==
    /\ ~PresentLocally(s, a)
    /\ \A m \in {s.mv, s.mc} :
          IF a \in EntryHashes
          THEN /\ get_headers(m, a) = {}
               /\ get_deletes_on_entry(m, a) = {}
               /\ get_links_all(m, a) = {}
          ELSE /\ a \notin m.store_element \cup m.headers \cup m.deletes
                          \cup m.link_adds \cup m.link_removes
               /\ get_deletes_on_header(m, a) = {}
               /\ get_link_removes_on_link_add(m, a) = {}
    /\ a \in EntryHashes =>
          \A h \in s.ev.headers \cup s.ec.headers : a \notin entry_data(h)

\* The answer to a get carries no data: an empty list, or None items.
NoElementData(a) ==
    /\ ~a.err
    /\ \A i \in 1..Len(a.items) :
          a.items[i].kind \in {"GetHeader", "GetEntryFull"} /\ ~a.items[i].some

\* The answer to get_links carries no data: an empty list, or empty
\* responses.
NoLinkData(a) ==
    /\ ~a.err
    /\ \A i \in 1..Len(a.items) :
          a.items[i].link_adds = {} /\ a.items[i].link_removes = {}

\* C9: for an address unknown to the vault, the cache and the answering
\* authorities, the gets, the retrieves and the details return Ok(None) and
\* the link queries an empty list; not found is no error.
C9_NotFoundIsOkNone ==
    /\ (/\ last.op \in ElementOps
        /\ Unknown(last.pre, last.arg)
        /\ \A i \in 1..Len(last.answers) : NoElementData(last.answers[i]))
           => (last.result = OkNone /\ last.calls = 1)
    /\ (/\ last.op = "dht_get_links"
        /\ Unknown(last.pre, last.arg)
        /\ \A i \in 1..Len(last.answers) : NoLinkData(last.answers[i]))
           => last.result = Result("Ok", {})
    /\ (/\ last.op = "get_link_details"
        /\ Unknown(last.pre, last.arg)
        /\ \A i \in 1..Len(last.answers) : NoLinkData(last.answers[i]))
           => last.result = Result("Ok", <<>>)

\* C9 happens: a get of a header nothing refers to, answered with a None
\* response, returned Ok(None).
C9_Witness ==
    /\ last.op = "dht_get_header"
    /\ Unknown(last.pre, last.arg)
    /\ last.calls = 1
    /\ NoElementData(last.answers[1])
    /\ last.answers[1].items # <<>>
    /\ last.result = OkNone

\* C10: no step of a Cascade changes the vault element store or the vault
\* metadata store.
C10_VaultNeverModified ==
    [][element_vault' = element_vault /\ meta_vault' = meta_vault]_vars

\* C10 happens: a call wrote to both cache stores beside a vault that holds
\* elements, and the vault is as it was before the call.
C10_Witness ==
    /\ last.op # "idle"
    /\ element_cache # last.pre.ec
    /\ meta_cache # last.pre.mc
    /\ element_vault.headers # {}
    /\ element_vault = last.pre.ev
    /\ meta_vault = last.pre.mv

\* The link creations and the link removals the answers of the last call
\* carried.
AnsweredAdds ==
    UNION {UNION {last.answers[i].items[j].link_adds :
                     j \in 1..Len(last.answers[i].items)} :
              i \in 1..Len(last.answers)}

AnsweredRemoves ==
    UNION {UNION {last.answers[i].items[j].link_removes :
                     j \in 1..Len(last.answers[i].items)} :
              i \in 1..Len(last.answers)}

\* The links under key among adds that no removal of removes is for.
LiveAmong(adds, removes, key) ==
    {l \in adds : /\ HeaderKind(l) = "CreateLink"
                  /\ base_address(l) = key
                  /\ ~\E r \in removes : link_add_address(r) = l}

OneLinkInVaultOnly(s, key, l) ==
    /\ {x \in s.mv.link_adds : base_address(x) = key} = {l}
    /\ ~\E r \in s.mv.link_removes : link_add_address(r) = l
    /\ s.mc.link_adds = {}
    /\ s.mc.link_removes = {}

LinkAndRemove ==
    {p \in HeaderHashes \X HeaderHashes :
        HeaderKind(p[1]) = "CreateLink" /\ link_add_address(p[2]) = p[1]}

LiveWithSingleHeader(s, e, h) ==
    /\ s.mc.status[e] = "Live"
    /\ RegisteredHeadersOf(s, e) = {h}
    /\ PhysicallyHeld(s, h)

NotLiveButHeld(s, e) ==
    /\ s.mc.status[e] # "Live"
    /\ e \in s.ev.entries \cup s.ec.entries
    /\ \E h \in s.ev.headers \cup s.ec.headers : e \in entry_data(h)

OneLiveHeaderAnswer(a, e, h) ==
    /\ ~a.err
    /\ Len(a.items) = 1
    /\ a.items[1].kind = "GetEntryFull"
    /\ a.items[1].some
    /\ a.items[1].entry = e
    /\ a.items[1].live_headers = {h}

\* C17: for an entry that nothing local refers to and an answer with one
\* live header and the entry, dht_get puts the header and the entry into
\* the element cache, registers the header in the cache metadata and
\* returns the Element made of that header and the entry.
C17_AbsentEntryFetchedAndReturned ==
    \A h \in HeaderHashes :
        (/\ last.op = "dht_get_entry"
         /\ Unknown(last.pre, last.arg)
         /\ OneLiveHeaderAnswer(last.answers[1], last.arg, h)) =>
            /\ last.calls = 1
            /\ h \in element_cache.headers
            /\ last.arg \in element_cache.entries
            /\ h \in meta_cache.headers
            /\ h \in meta_cache.store_element
            /\ meta_cache.status[last.arg] = "Live"
            /\ last.result = Result("Ok", {[header |-> h, entry |-> last.arg]})

\* C17 happens: both stores were empty, the answer carried h3 with e1, and
\* the Element of h3 with e1 is returned from the cache.
C17_Witness ==
    /\ last.op = "dht_get_entry"
    /\ last.pre.ev = EmptyElementBuf
    /\ last.pre.ec = EmptyElementBuf
    /\ Unknown(last.pre, last.arg)
    /\ OneLiveHeaderAnswer(last.answers[1], last.arg, "h3")
    /\ "h3" \in element_cache.headers
    /\ last.result = Result("Ok", {[header |-> "h3", entry |-> "e1"]})

\* The methods by the request they make.
HeaderFetchOps == {"dht_get_header", "retrieve_header", "get_header_details"}

EntryFetchOps == {"dht_get_entry", "retrieve_entry", "get_entry_details"}

LinkFetchOps == {"dht_get_links", "get_link_details"}

\* The stores after the first answer of the last call is merged once more
\* into the stores as they are now.
MergedAgain ==
    LET a == last.answers[1]
    IN  CASE last.op \in LinkFetchOps -> fetch_links(Now, a).s
          [] last.op \in EntryFetchOps
               \/ (last.op = "retrieve" /\ last.arg \in EntryHashes) ->
                 fetch_element_via_entry(Now, a).s
          [] OTHER -> fetch_element_via_header(Now, a).s

\* C18: once a call has merged the answer of the network into the cache,
\* merging the same answer again changes nothing: the status of every
\* entry, the registered metadata and the stored elements are the same.
C18_MergeIdempotent ==
    (last.op # "idle" /\ last.calls >= 1 /\ ~last.answers[1].err) =>
        /\ MergedAgain.mc.status = meta_cache.status
        /\ MergedAgain.mc = meta_cache
        /\ MergedAgain.ec = element_cache
        /\ MergedAgain = Now

\* C18 happens: the answer to a get by entry hash brought headers, the
\* entry and a delete into an empty cache, the status of the entry was
\* derived, and the second merge leaves all of it as it is.
C18_Witness ==
    /\ last.op = "dht_get_entry"
    /\ last.pre.ec = EmptyElementBuf
    /\ ~last.answers[1].err
    /\ "h1" \in element_cache.headers
    /\ "d2" \in meta_cache.deletes
    /\ meta_cache.status["e1"] = "Live"
    /\ MergedAgain = Now

\* The hashes of the headers the last call handed to its caller, alone or
\* within an Element or a Details view.
ReturnedHeaders ==
    CASE last.op \in {"dht_get_header", "dht_get_entry", "retrieve", "retrieve_header"} ->
           {el.header : el \in last.result.val} \ {NoHeader}
      [] last.op = "get_header_details" ->
           UNION {{d.element.header} \cup d.deletes : d \in last.result.val}
      [] last.op = "get_entry_details" ->
           UNION {d.headers \cup d.deletes : d \in last.result.val}
      [] last.op = "get_link_details" ->
           UNION {{last.result.val[i].create} \cup
                  {last.result.val[i].removes[j] :
                      j \in 1..Len(last.result.val[i].removes)} :
                  i \in 1..Len(last.result.val)}
      [] OTHER -> {}

\* A valid reason to return header h in the stores s: h is registered as a
\* stored element, or h carries an entry hash and is registered as a header
\* of that entry, in the vault or the cache metadata.
ValidReason(s, h) ==
    \/ h \in s.mv.store_element \cup s.mc.store_element
    \/ /\ entry_data(h) # {}
       /\ h \in s.mv.headers \cup s.mc.headers

\* C19: every header a call returns, alone, in an Element or in a Details
\* view, is held in the vault or the cache and has a valid reason in the
\* metadata of the vault or the cache; a header that is held with neither
\* registration is not returned.
C19_ReturnedHasValidReason ==
    /\ \A h \in ReturnedHeaders : PhysicallyHeld(Now, h) /\ ValidReason(Now, h)
    /\ \A h \in HeaderHashes :
          (PhysicallyHeld(Now, h) /\ ~ValidReason(Now, h)) => h \notin ReturnedHeaders

\* C19 happens: the vault holds the element of one header with no
\* registration in any metadata, the answer of the network brought another
\* header of the entry into the cache with its registration, and the
\* Details view lists the second and not the first.
C19_Witness ==
    /\ last.op = "get_entry_details"
    /\ \E h \in ReturnedHeaders : h \in element_cache.headers /\ ValidReason(Now, h)
    /\ \E g \in element_vault.headers :
          /\ entry_data(g) # {}
          /\ ~ValidReason(Now, g)
          /\ g \notin ReturnedHeaders

\* The last call got an answer from the network and merged it.
AnsweredAndMerged == ~last.answers[1].err /\ last.result.tag # "Panic"

\* The EntryDetails of entry e with the headers in hs, the deletes in ds and
\* the status the cache metadata has for e.
EntryDetailsOf(e, hs, ds) ==
    [entry |-> e, headers |-> {h \in hs : e \in entry_data(h)},
     deletes |-> {d \in ds : deletes_entry_address(d) = e},
     entry_dht_status |-> meta_cache.status[e]]

\* The ElementDetails of the element el with the deletes on it among ds.
ElementDetailsOf(el, ds) ==
    [element |-> el, deletes |-> {d \in ds : deletes_address(d) = el.header}]

\* What dht_get gives for the address of the last call in the stores now.
DhtGetNow == dht_get(Now, last.arg, last.answers[1], last.answers[1]).result

C20_WitnessEntry ==
    /\ last.op = "get_entry_details"
    /\ \E d \in last.result.val :
          /\ d.entry_dht_status = "Dead"
          /\ d.headers # {}
          /\ d.deletes # {}
    /\ DhtGetNow = OkNone

(***************************************************************************)
(* The options of a get and the requests a call sends to the network.      *)
(* SpecOptions runs the Details methods with the options of the caller     *)
(* and records every request sent with the options it carries.             *)
(***************************************************************************)
\* holochain_p2p::actor::GetOptions, by the flag the Cascade sets.
GetOptions == [all_live_headers_with_metadata : BOOLEAN]

\* self.network.get(hash.into(), options)
network_get(hash, options) == [hash |-> hash, options |-> options]

\* The request of Cascade::fetch_element_via_header
fetch_element_via_header_request(hash, options) == network_get(hash, options)

\* The request of Cascade::fetch_element_via_entry
fetch_element_via_entry_request(hash, options) == network_get(hash, options)

\* The requests of Cascade::get_entry_details
get_entry_details_requests(e, options) ==
    <<fetch_element_via_entry_request(e, options)>>

\* The requests of Cascade::get_header_details
get_header_details_requests(h, options) ==
    <<fetch_element_via_header_request(h, options)>>

\* get_details that hands the options on as the caller gave them.
get_details_requests_as_given(hash, options) ==
    IF hash \in EntryHashes THEN get_entry_details_requests(hash, options)
    ELSE get_header_details_requests(hash, options)

\* The requests of Cascade::get_details
get_details_requests(hash, options) ==
    LET forced == [options EXCEPT !.all_live_headers_with_metadata = TRUE]
    IN  IF hash \in EntryHashes THEN get_entry_details_requests(hash, forced)
        ELSE get_header_details_requests(hash, forced)

\* A call returns, with the options of its caller and the requests it sent.
ReturnsSent(op, arg, answers, o, options, sent) ==
    /\ element_vault' = o.s.ev
    /\ meta_vault' = o.s.mv
    /\ element_cache' = o.s.ec
    /\ meta_cache' = o.s.mc
    /\ last' = [op |-> op, arg |-> arg, answers |-> SubSeq(answers, 1, o.calls),
                result |-> o.result, calls |-> o.calls, pre |-> Now,
                options |-> options, sent |-> sent]
    /\ UNCHANGED <<dht, merging>>

\* The answers to network.get for an address of either role.
AnswersFor(hash) ==
    IF hash \in EntryHashes THEN EntryAnswers(dht) ELSE HeaderAnswers(dht)

GetDetailsWithOptions ==
    /\ last.op = "idle"
    /\ \E hash \in EntryHashes \cup dht, options \in GetOptions :
          \E a \in AnswersFor(hash) :
              ReturnsSent("get_details", hash, <<a>>, get_details(Now, hash, a),
                          options, get_details_requests(hash, options))

GetEntryDetailsWithOptions ==
    /\ last.op = "idle"
    /\ \E e \in EntryHashes, options \in GetOptions, a \in EntryAnswers(dht) :
          ReturnsSent("get_entry_details", e, <<a>>, get_entry_details(Now, e, a),
                      options, get_entry_details_requests(e, options))

GetHeaderDetailsWithOptions ==
    /\ last.op = "idle"
    /\ \E h \in dht, options \in GetOptions, a \in HeaderAnswers(dht) :
          ReturnsSent("get_header_details", h, <<a>>, get_header_details(Now, h, a),
                      options, get_header_details_requests(h, options))

NextOptions ==
    \/ GetDetailsWithOptions
    \/ GetEntryDetailsWithOptions
    \/ GetHeaderDetailsWithOptions
    \/ Drop

SpecOptions == Init /\ [][NextOptions]_vars

\* C21: every request get_details sends, for an entry hash or a header
\* hash, carries all_live_headers_with_metadata = true, whatever the
\* options of the caller said; it sends one request, for the address asked.
C21_GetDetailsForcesAllLiveHeaders ==
    last.op = "get_details" =>
        /\ Len(last.sent) = last.calls
        /\ last.calls = 1
        /\ \A i \in 1..Len(last.sent) :
              /\ last.sent[i].hash = last.arg
              /\ last.sent[i].options.all_live_headers_with_metadata

\* C21 happens: the caller of get_details for an entry hash left the flag
\* off and the request carries it on.
C21_Witness ==
    /\ last.op = "get_details"
    /\ last.arg \in EntryHashes
    /\ ~last.options.all_live_headers_with_metadata
    /\ last.sent[1].options.all_live_headers_with_metadata
    /\ last.result.tag = "Ok"

(***************************************************************************)
(* SpecForeign: a cache the Cascade shares with other writers.  When a     *)
(* call begins the cache already has content: metadata registered for      *)
(* headers the element cache does not hold, an element cache that holds    *)
(* headers nothing registers, a status the registered headers do not bear  *)
(* out, a link index that lists a header of another kind.                  *)
(***************************************************************************)
\* The links from e1 with both removals of l1, and the headers of e1.
LinkWorld == {"l1", "l2", "r1", "r2"}

EntryWorld == {"h1", "h2", "d2"}

\* What the element cache may hold of the published content pub.
ForeignHeld(pub) ==
    IF pub = LinkWorld
    THEN {LinkWorld \cup {"x1"}, {"l1", "r1", "r2", "x1"}, {"l1", "l2", "r2", "x1"},
          {"l2", "r1", "r2"}, {}}
    ELSE {EntryWorld, {"h2", "d2"}, {}}

\* What the cache metadata may have registered of the published content pub.
ForeignRegistered(pub) ==
    IF pub = LinkWorld
    THEN {LinkWorld, {"l1", "l2", "r1"}, {"l1", "r1", "r2"}}
    ELSE {{}, {"h1"}, {"h2", "d2"}, {"h1", "h2", "d2"}}

\* The link index of meta with the header x1 listed as a creation of a link
\* ("add"), as a removal of a link ("remove"), or not at all.
Misfiled(meta, how) ==
    CASE how = "add" ->
           [meta EXCEPT !.store_element = @ \cup {"x1"}, !.link_adds = @ \cup {"x1"}]
      [] how = "remove" ->
           [meta EXCEPT !.store_element = @ \cup {"x1"}, !.link_removes = @ \cup {"x1"}]
      [] OTHER -> meta

InitForeign ==
    /\ dht \in {LinkWorld, EntryWorld}
    /\ element_vault = EmptyElementBuf
    /\ meta_vault = EmptyMetadataBuf
    /\ \E held \in ForeignHeld(dht), registered \in ForeignRegistered(dht),
          how \in {"none", "add", "remove"}, live \in BOOLEAN :
          /\ how = "none" \/ dht = LinkWorld
          /\ element_cache = HoldingElements(held)
          /\ meta_cache =
                LET m == Misfiled(integrate_all(registered, EmptyMetadataBuf), how)
                IN  IF live THEN [m EXCEPT !.status["e1"] = "Live"] ELSE m
    /\ last = Idle
    /\ merging = NoMerges

NextForeign ==
    \/ DhtGetEntry
    \/ DhtGetLinks
    \/ GetLinkDetails
    \/ Drop

SpecForeign == InitForeign /\ [][NextForeign]_vars

\* Header h resolves locally in the stores s: it is held and has a valid
\* reason.
Resolvable(s, h) == PhysicallyHeld(s, h) /\ ValidReason(s, h)

\* The elements of a sequence.
Range(seq) == {seq[i] : i \in 1..Len(seq)}

\* The creates get_link_details returned.
ListedCreates == {p.create : p \in Range(last.result.val)}

\* Every header the link index of the cache lists is of the kind it is
\* listed as.
LinkIndexWellTyped ==
    /\ \A l \in meta_cache.link_adds : HeaderKind(l) = "CreateLink"
    /\ \A r \in meta_cache.link_removes : HeaderKind(r) = "DeleteLink"

\* C22: get_link_details returns what resolves and skips the rest.  With
\* the answer merged and every listed header of its kind, the call returns
\* Ok; a create registered under the key is returned exactly when its
\* header resolves locally, and with it exactly the removes registered on
\* it whose headers resolve locally.
C22_LinkDetailsPartial ==
    (/\ last.op = "get_link_details"
     /\ ~last.answers[1].err
     /\ LinkIndexWellTyped) =>
        /\ last.result.tag = "Ok"
        /\ ListedCreates =
               {l \in meta_cache.link_adds :
                   base_address(l) = last.arg /\ Resolvable(Now, l)}
        /\ \A p \in Range(last.result.val) :
               Range(p.removes) =
                   {r \in meta_cache.link_removes :
                       link_add_address(r) = p.create /\ Resolvable(Now, r)}

\* C22 happens: the cache metadata lists the links l1 and l2 and the
\* removals r1 and r2 of l1, the element cache holds l1 and r2 alone, and
\* the call returns Ok with l1 and r2, without l2 and without r1.
C22_Witness ==
    /\ last.op = "get_link_details"
    /\ {"l1", "l2"} \subseteq meta_cache.link_adds
    /\ {"r1", "r2"} \subseteq meta_cache.link_removes
    /\ ~Resolvable(Now, "l2")
    /\ ~Resolvable(Now, "r1")
    /\ last.result = Result("Ok", <<[create |-> "l1", removes |-> <<"r2">>]>>)

\* get_link_details comes upon a header that is not of the expected type:
\* a create under the key that resolves and is no CreateLink, or a remove
\* that resolves, is no DeleteLink and is registered on a create under the
\* key that resolves.
WrongTypeRendered ==
    \E l \in meta_cache.link_adds :
        /\ base_address(l) = last.arg
        /\ Resolvable(Now, l)
        /\ \/ HeaderKind(l) # "CreateLink"
           \/ \E r \in meta_cache.link_removes :
                 /\ link_add_address(r) = l
                 /\ Resolvable(Now, r)
                 /\ HeaderKind(r) # "DeleteLink"

\* C23 as stated: a record of the wrong type is skipped, the call returns
\* Ok and the creates of the right type that resolve are still returned.
C23_WrongTypeSkipped ==
    (last.op = "get_link_details" /\ ~last.answers[1].err) =>
        /\ last.result.tag = "Ok"
        /\ ListedCreates =
               {l \in meta_cache.link_adds :
                   /\ base_address(l) = last.arg
                   /\ Resolvable(Now, l)
                   /\ HeaderKind(l) = "CreateLink"}

\* C23: when get_link_details comes upon a resolved header that is not of
\* the expected type (a create that is no CreateLink, a remove that is no
\* DeleteLink), the conversion error fails the whole call: no pair is
\* returned.  Without such a header the call returns Ok.
C23_WrongTypeFailsListing ==
    (last.op = "get_link_details" /\ ~last.answers[1].err) =>
        IF WrongTypeRendered
        THEN last.result = Result("ConversionErr", <<>>)
        ELSE last.result.tag = "Ok"

\* C23 happens: the link index lists the Dna header x1 as a link from e1
\* next to the link l1, both resolve, and the call fails without l1.
C23_Witness ==
    /\ last.op = "get_link_details"
    /\ "x1" \in meta_cache.link_adds
    /\ Resolvable(Now, "x1")
    /\ "l1" \in meta_cache.link_adds
    /\ Resolvable(Now, "l1")
    /\ last.result = Result("ConversionErr", <<>>)

\* The sequence seq of header hashes ascends by (timestamp, header hash),
\* strictly: no header comes twice.
Ascending(seq) == \A i, j \in 1..Len(seq) : i < j => Before(seq[i], seq[j])

\* C24: get_link_details returns the creates in ascending (timestamp,
\* header hash) order and with each create its removes in ascending
\* (timestamp, header hash) order, none twice; the listing is decided by
\* what the cache has registered and holds after the merge, not by the
\* order of the answer.
C24_LinkDetailsOrdered ==
    (last.op = "get_link_details" /\ last.result.tag = "Ok") =>
        /\ Ascending([i \in 1..Len(last.result.val) |-> last.result.val[i].create])
        /\ \A p \in Range(last.result.val) : Ascending(p.removes)

\* C24 happens: l2 is older than l1 and has the greater hash, r2 is older
\* than r1 and has the greater hash; the answer of the network brought some
\* of them, and the call lists l2 before l1 and r2 before r1.
C24_Witness ==
    /\ last.op = "get_link_details"
    /\ last.answers[1].items # <<>>
    /\ element_cache # last.pre.ec
    /\ last.result = Result("Ok", <<[create |-> "l2", removes |-> <<>>],
                                    [create |-> "l1", removes |-> <<"r2", "r1">>]>>)

\* The stores and the outcome of the first fetch of the last call by entry
\* hash.
AfterEntryFetch == fetch_element_via_entry(last.pre, last.answers[1])

\* The headers of entry e that the metadata meta registers with no delete
\* registered on them.
UndeletedIn(meta, e) ==
    {h \in meta.headers :
        /\ e \in entry_data(h)
        /\ ~\E d \in meta.deletes : deletes_address(d) = h}

\* C25: when, after the merge of the answer, the cache reports the entry
\* Live and registers no header of it without a delete, dht_get_entry
\* aborts (the expect on the oldest live header panics): it returns neither
\* None nor an Element, and asks the network nothing more.
C25_LiveWithoutHeaderPanics ==
    (/\ last.op = "dht_get_entry"
     /\ AfterEntryFetch.status = "Ok"
     /\ AfterEntryFetch.s.mc.status[last.arg] = "Live"
     /\ UndeletedIn(AfterEntryFetch.s.mc, last.arg) = {}) =>
        /\ last.result = Result("Panic", {})
        /\ last.calls = 1

\* C25 happens: the cache reports e1 Live, its one registered header h2 has
\* the delete d2 registered, the answer of the network brings nothing, and
\* the call panics.
C25_Witness ==
    /\ last.op = "dht_get_entry"
    /\ last.arg = "e1"
    /\ last.pre.mc.status["e1"] = "Live"
    /\ last.pre.mc.headers = {"h2"}
    /\ "d2" \in last.pre.mc.deletes
    /\ ~last.answers[1].err
    /\ meta_cache = last.pre.mc
    /\ last.result = Result("Panic", {})

(***************************************************************************)
(* SpecConcurrent: two calls merge what they fetched into one cache.  A    *)
(* step is one write to a store: a put into the element cache or one       *)
(* integrate_single_metadata into the cache metadata.  The writes of the   *)
(* two calls interleave freely, and a call may be abandoned between two    *)
(* of its writes.                                                          *)
(***************************************************************************)
\* The writes of `for op in op_lights { integrate_single_metadata(op, ..) }`
IntegrateWrites(h) ==
    [i \in 1..Len(produce_op_lights(h)) |->
        [kind |-> "integrate", op |-> produce_op_lights(h)[i], h |-> h]]

\* The writes of update_stores with the op lights integrated before the put.
update_stores_writes_put_last(element) ==
    IntegrateWrites(element.header) \o <<[kind |-> "put", element |-> element]>>

\* The writes of Cascade::update_stores: the put, then the op lights.
update_stores_writes(element) ==
    <<[kind |-> "put", element |-> element]>> \o IntegrateWrites(element.header)

RECURSIVE integrate_group_writes(_)
\* The op lights of a group, header by header.
integrate_group_writes(hs) ==
    IF hs = {} THEN <<>>
    ELSE LET h == CHOOSE x \in hs : \A y \in hs : HashOrd(x) <= HashOrd(y)
         IN  IntegrateWrites(h) \o integrate_group_writes(hs \ {h})

\* The writes of Cascade::update_stores_with_element_group
update_stores_with_element_group_writes(entry, hs) ==
    <<[kind |-> "put_element_group", entry |-> entry, hs |-> hs]>>
        \o integrate_group_writes(hs)

RECURSIVE update_stores_all_writes(_)
\* The writes of `for .. { self.update_stores(element) }`
update_stores_all_writes(hs) ==
    IF hs = {} THEN <<>>
    ELSE LET h == CHOOSE x \in hs : \A y \in hs : HashOrd(x) <= HashOrd(y)
         IN  update_stores_writes(Element(h, {})) \o update_stores_all_writes(hs \ {h})

\* What a call merges: the response item i of a fetch by header hash, by
\* entry hash or of links.
Merge(fetch, i) == [fetch |-> fetch, item |-> i]

Merges(pub) ==
    {Merge("header", i) : i \in GetHeaderItems(pub)}
        \cup {Merge("entry", i) : i \in GetEntryFullItems(pub)}
        \cup {Merge("links", i) : i \in GetLinksResponses(pub)}

\* The writes of one turn of the loop of fetch_element_via_header,
\* fetch_element_via_entry or fetch_links.
merge_writes(m) ==
    LET i == m.item
    IN  CASE m.fetch = "header" ->
               update_stores_writes(
                   Element(i.header, IF i.with_entry THEN entry_data(i.header) ELSE {}))
                   \o update_stores_all_writes(i.deleted)
          [] m.fetch = "entry" ->
               update_stores_with_element_group_writes(i.entry, i.live_headers)
                   \o update_stores_all_writes(i.deletes)
          [] OTHER ->
               update_stores_all_writes(i.link_adds)
                   \o update_stores_all_writes(i.link_removes)

\* A write that stores its element over the element cache, not into it.
apply_write_over(s, w) ==
    CASE w.kind = "put" -> [s EXCEPT !.ec = put(EmptyElementBuf, w.element)]
      [] w.kind = "put_element_group" ->
           [s EXCEPT !.ec = [headers |-> w.hs, entries |-> {w.entry}]]
      [] OTHER -> [s EXCEPT !.mc = integrate_single_metadata(w.op, w.h, s.mc)]

\* A write that replaces the record of the metadata it belongs to.
apply_write_replacing(s, w) ==
    CASE w.kind = "put" -> [s EXCEPT !.ec = put(s.ec, w.element)]
      [] w.kind = "put_element_group" ->
           [s EXCEPT !.ec = [headers |-> s.ec.headers \cup w.hs,
                             entries |-> s.ec.entries \cup {w.entry}]]
      [] OTHER ->
           [s EXCEPT !.mc = integrate_single_metadata(w.op, w.h,
                                [s.mc EXCEPT !.store_element = {}])]

\* One write to the cache: element_cache.put, element_cache.put_element_group
\* or integrate_single_metadata(op, &element_cache, meta_cache).
apply_write(s, w) ==
    CASE w.kind = "put" -> [s EXCEPT !.ec = put(s.ec, w.element)]
      [] w.kind = "put_element_group" ->
           [s EXCEPT !.ec = [headers |-> s.ec.headers \cup w.hs,
                             entries |-> s.ec.entries \cup {w.entry}]]
      [] OTHER -> [s EXCEPT !.mc = integrate_single_metadata(w.op, w.h, s.mc)]

\* The two calls.
Calls == {1, 2}

\* A call that is to merge m: its writes to do, how many it has done, and
\* whether it is merging, done or abandoned.
NewCall(m) ==
    [merge |-> m, todo |-> merge_writes(m), written |-> 0,
     state |-> IF merge_writes(m) = <<>> THEN "done" ELSE "merging"]

\* Where the two calls begin: an empty cache, or a cache that already has
\* the first header published, merged with its entry.
BaseCaches(pub) ==
    {Stores(EmptyElementBuf, EmptyMetadataBuf, EmptyElementBuf, EmptyMetadataBuf)}
        \cup {update_stores(Stores(EmptyElementBuf, EmptyMetadataBuf, EmptyElementBuf,
                                   EmptyMetadataBuf), Element(h, entry_data(h))) :
                 h \in {x \in pub : \A y \in pub : HashOrd(x) <= HashOrd(y)}}

InitConcurrent ==
    /\ dht \in DhtChoices
    /\ element_vault = EmptyElementBuf
    /\ meta_vault = EmptyMetadataBuf
    /\ last = Idle
    /\ \E base \in BaseCaches(dht), m1 \in Merges(dht), m2 \in Merges(dht) :
          /\ element_cache = base.ec
          /\ meta_cache = base.mc
          /\ merging = [base |-> base, overlapped |-> FALSE,
                        calls |-> [c \in Calls |-> NewCall(IF c = 1 THEN m1 ELSE m2)]]

\* Call c does its next write.  The write overlaps the other call when that
\* call has written and has more to write.
Write(c) ==
    /\ merging.calls[c].state = "merging"
    /\ LET me == merging.calls[c]
           s == apply_write(Now, Head(me.todo))
           other == merging.calls[CHOOSE o \in Calls : o # c]
       IN  /\ element_cache' = s.ec
           /\ meta_cache' = s.mc
           /\ merging' = [merging EXCEPT
                 !.overlapped = @ \/ (other.state = "merging" /\ other.written > 0),
                 !.calls[c] = [me EXCEPT
                     !.todo = Tail(@),
                     !.written = @ + 1,
                     !.state = IF Tail(me.todo) = <<>> THEN "done" ELSE "merging"]]
    /\ UNCHANGED <<dht, element_vault, meta_vault, last>>

\* The caller of call c drops the future between two writes.
Abandon(c) ==
    /\ merging.calls[c].state = "merging"
    /\ merging' = [merging EXCEPT !.calls[c].state = "abandoned",
                                  !.calls[c].todo = <<>>]
    /\ UNCHANGED <<dht, element_vault, meta_vault, element_cache, meta_cache, last>>

NextConcurrent ==
    \/ \E c \in Calls : Write(c)
    \/ \E c \in Calls : Abandon(c)

SpecConcurrent == InitConcurrent /\ [][NextConcurrent]_vars

\* The stores after the merge m alone, as the fetch of a call makes it in
\* the stores s.
MergedAlone(s, m) ==
    CASE m.fetch = "header" -> fetch_element_via_header(s, NetOk(<<m.item>>)).s
      [] m.fetch = "entry" -> fetch_element_via_entry(s, NetOk(<<m.item>>)).s
      [] OTHER -> fetch_links(s, NetOk(<<m.item>>)).s

\* What call c merges alone into the cache the two calls began with.
Alone(c) == MergedAlone(merging.base, merging.calls[c].merge)

\* The records of the metadata that registrations add to.
MetaRecords == {"store_element", "headers", "deletes", "link_adds", "link_removes"}

BothDone == \A c \in Calls : merging.calls[c].state = "done"

\* C26: when both calls have done all their writes, in whatever order the
\* writes interleaved, the elements and the metadata of the cache are the
\* union of what each call merges alone, and the cache is what the two
\* merges give one after the other in either order, status included.
C26_ConcurrentMergesUnion ==
    BothDone =>
        /\ element_cache.headers = Alone(1).ec.headers \cup Alone(2).ec.headers
        /\ element_cache.entries = Alone(1).ec.entries \cup Alone(2).ec.entries
        /\ \A r \in MetaRecords : meta_cache[r] = Alone(1).mc[r] \cup Alone(2).mc[r]
        /\ Now = MergedAlone(Alone(1), merging.calls[2].merge)
        /\ Now = MergedAlone(Alone(2), merging.calls[1].merge)

\* C26 happens: the writes of the two calls overlapped, each call merged a
\* header the other did not, both merged one header twice, and both are
\* done.
C26_Witness ==
    /\ BothDone
    /\ merging.overlapped
    /\ Alone(1).mc.headers \ Alone(2).mc.headers # {}
    /\ Alone(2).mc.headers \ Alone(1).mc.headers # {}
    /\ (Alone(1).mc.headers \cap Alone(2).mc.headers) \ merging.base.mc.headers # {}
    /\ meta_cache.headers = Alone(1).mc.headers \cup Alone(2).mc.headers

\* Every element the cache holds and every record its metadata registers
\* is still there after the step.
CacheKept ==
    /\ element_cache.headers \subseteq element_cache'.headers
    /\ element_cache.entries \subseteq element_cache'.entries
    /\ \A r \in MetaRecords : meta_cache[r] \subseteq meta_cache'[r]

\* C27: the cache only grows.  No write of a merge, and no abandoning of a
\* call between two writes, removes or replaces an element of the element
\* cache or a registered stored element, header, delete or link record of
\* the cache metadata (the universe holds no update).
C27_CacheOnlyGrows == [][CacheKept]_vars

\* C27 happens: a call was abandoned part-way through its merge, the other
\* call finished, and the cache has what both wrote on top of what it had.
C27_Witness ==
    /\ merging # NoMerges
    /\ \E c \in Calls :
          /\ merging.calls[c].state = "abandoned"
          /\ merging.calls[c].written \in
                 1..(Len(merge_writes(merging.calls[c].merge)) - 1)
          /\ \A o \in Calls \ {c} :
                /\ merging.calls[o].state = "done"
                /\ merging.calls[o].written > 0
    /\ merging.base.ec.headers # {}
    /\ merging.base.ec.headers \subseteq element_cache.headers
    /\ merging.base.mc.store_element \subseteq meta_cache.store_element
    /\ element_cache.headers # merging.base.ec.headers

(***************************************************************************)
(* Several authorities answer one request: the response list of the        *)
(* request holds one item of each of them.                                 *)
(***************************************************************************)
\* Response lists of two items or more.
Several(items) == UNION {[1..n -> items] : n \in 2..MaxAuthorities}

HeaderAnswersOfSeveral(pub) ==
    {NetOk(l) : l \in Several(GetHeaderItems(pub) \cup OtherItems)}

EntryAnswersOfSeveral(pub) ==
    {NetOk(l) : l \in Several(GetEntryFullItems(pub) \cup OtherItems)}

LinksAnswersOfSeveral(pub) ==
    {NetOk(l) : l \in Several(GetLinksResponses(pub))}

DhtGetHeaderOfSeveral ==
    /\ last.op = "idle"
    /\ \E h \in dht, a \in HeaderAnswersOfSeveral(dht) :
          Returns("dht_get_header", h, <<a>>, dht_get(Now, h, a, a))

DhtGetEntryOfSeveral ==
    /\ last.op = "idle"
    /\ \E e \in EntryHashes, a \in EntryAnswersOfSeveral(dht) :
          IF continues(Now, e, a)
          THEN \E a2 \in HeaderAnswersOfSeveral(dht) :
                  Returns("dht_get_entry", e, <<a, a2>>, dht_get(Now, e, a, a2))
          ELSE Returns("dht_get_entry", e, <<a>>, dht_get(Now, e, a, a))

GetEntryDetailsOfSeveral ==
    /\ last.op = "idle"
    /\ \E e \in EntryHashes, a \in EntryAnswersOfSeveral(dht) :
          Returns("get_entry_details", e, <<a>>, get_details(Now, e, a))

GetHeaderDetailsOfSeveral ==
    /\ last.op = "idle"
    /\ \E h \in dht, a \in HeaderAnswersOfSeveral(dht) :
          Returns("get_header_details", h, <<a>>, get_details(Now, h, a))

DhtGetLinksOfSeveral ==
    /\ last.op = "idle"
    /\ \E key \in EntryHashes, a \in LinksAnswersOfSeveral(dht) :
          Returns("dht_get_links", key, <<a>>, dht_get_links(Now, key, a))

\* One call on the stores of Init, answered by several authorities.
NextOfSeveral ==
    \/ DhtGetHeaderOfSeveral
    \/ DhtGetEntryOfSeveral
    \/ GetEntryDetailsOfSeveral
    \/ GetHeaderDetailsOfSeveral
    \/ DhtGetLinksOfSeveral

SpecOfSeveral == Init /\ [][NextOfSeveral]_vars

\* The items of the first answer of the last call.
ItemsAnswered == last.answers[1].items

\* The GetEntryFull(Some) and the GetHeader(Some) items among them.
RawEntryItems ==
    {i \in 1..Len(ItemsAnswered) :
        ItemsAnswered[i].kind = "GetEntryFull" /\ ItemsAnswered[i].some}

WireElementItems ==
    {i \in 1..Len(ItemsAnswered) :
        ItemsAnswered[i].kind = "GetHeader" /\ ItemsAnswered[i].some}

\* What the items of the answer carry, all items together.
AnsweredLiveHeaders == UNION {ItemsAnswered[i].live_headers : i \in RawEntryItems}

AnsweredEntryDeletes == UNION {ItemsAnswered[i].deletes : i \in RawEntryItems}

AnsweredHeaderDeletes ==
    {d \in UNION {ItemsAnswered[i].deleted \cup {ItemsAnswered[i].header} :
                     i \in WireElementItems} : HeaderKind(d) = "Delete"}

\* Every GetEntryFull(Some) item of the answer is merged into the cache.
EntryAnswerMerged ==
    \A i \in RawEntryItems :
        /\ ItemsAnswered[i].entry \in element_cache.entries
        /\ ItemsAnswered[i].live_headers \subseteq element_cache.headers
        /\ ItemsAnswered[i].live_headers \subseteq meta_cache.headers
        /\ ItemsAnswered[i].live_headers \subseteq meta_cache.store_element
        /\ ItemsAnswered[i].deletes \subseteq element_cache.headers
        /\ ItemsAnswered[i].deletes \subseteq meta_cache.deletes

\* Every GetLinksResponse of the answer is merged into the cache.
LinksAnswerMerged ==
    \A i \in 1..Len(ItemsAnswered) :
        /\ ItemsAnswered[i].link_adds \subseteq element_cache.headers
        /\ ItemsAnswered[i].link_adds \subseteq meta_cache.link_adds
        /\ ItemsAnswered[i].link_removes \subseteq element_cache.headers
        /\ ItemsAnswered[i].link_removes \subseteq meta_cache.link_removes

\* The last call made a request, the answer had two items or more, and no
\* item of an entry request was of a variant fetch_element_via_entry has no
\* arm for.
SeveralItemsAnswered ==
    /\ last.op # "idle"
    /\ last.calls >= 1
    /\ ~last.answers[1].err
    /\ Len(ItemsAnswered) >= 2
    /\ last.op \in EntryFetchOps =>
           \A i \in 1..Len(ItemsAnswered) : ItemsAnswered[i].kind # "GetEntryCollapsed"

\* C28: when one request is answered with several response items, every
\* item is merged into the cache, the elements, the deletes, the link
\* creations and the link removals of each, and the result is computed from
\* all of them together: a header that one item carries is None when any
\* item carries a delete of it, the details list the headers and deletes of
\* every item, and the links are the creations of any item that no removal
\* of any item is for.
C28_EveryItemMerged ==
    SeveralItemsAnswered =>
        /\ last.op \in HeaderFetchOps => HeaderAnswerMerged(last.answers[1])
        /\ last.op \in EntryFetchOps => EntryAnswerMerged
        /\ last.op \in LinkFetchOps => LinksAnswerMerged
        /\ (last.op = "dht_get_header"
               /\ \E i \in WireElementItems : ItemsAnswered[i].header = last.arg) =>
              /\ last.result.tag = "Ok"
              /\ IF \E d \in AnsweredHeaderDeletes : deletes_address(d) = last.arg
                 THEN last.result.val = {}
                 ELSE \E el \in last.result.val : el.header = last.arg
        /\ (last.op = "get_header_details"
               /\ \E i \in WireElementItems : ItemsAnswered[i].header = last.arg) =>
              /\ last.result.tag = "Ok"
              /\ \E d \in last.result.val :
                    /\ d.element.header = last.arg
                    /\ d = ElementDetailsOf(d.element, AnsweredHeaderDeletes
                                                           \cup last.pre.mc.deletes)
        /\ (last.op = "get_entry_details"
               /\ \E i \in RawEntryItems : /\ ItemsAnswered[i].entry = last.arg
                                            /\ ItemsAnswered[i].live_headers # {}) =>
              last.result =
                  Result("Ok", {EntryDetailsOf(last.arg,
                                    AnsweredLiveHeaders \cup last.pre.mc.headers,
                                    AnsweredEntryDeletes \cup last.pre.mc.deletes)})
        /\ (last.op = "dht_get_entry" /\ last.calls = 1 /\ last.result.val # {}) =>
              \E h \in AnsweredLiveHeaders \cup last.pre.mc.headers :
                  /\ last.result = Result("Ok", {Element(h, {last.arg})})
                  /\ ~\E d \in AnsweredEntryDeletes \cup last.pre.mc.deletes :
                         deletes_address(d) = h
                  /\ \A i \in RawEntryItems :
                         \A o \in ItemsAnswered[i].live_headers \ {h} :
                            \/ Before(h, o)
                            \/ \E d \in AnsweredEntryDeletes : deletes_address(d) = o
        /\ last.op = "dht_get_links" =>
              last.result =
                  Result("Ok", LiveAmong(last.pre.mc.link_adds \cup AnsweredAdds,
                                         last.pre.mc.link_removes \cup AnsweredRemoves,
                                         last.arg))

\* C28 happens: one authority reports h1 as the live header of e1 and the
\* other reports h3; both are in the cache, and the details of e1 list both.
C28_Witness ==
    /\ last.op = "get_entry_details"
    /\ SeveralItemsAnswered
    /\ RawEntryItems = {1, 2}
    /\ ItemsAnswered[1].live_headers = {"h1"}
    /\ ItemsAnswered[2].live_headers = {"h3"}
    /\ {"h1", "h3"} \subseteq element_cache.headers
    /\ \E d \in last.result.val : d.headers = {"h1", "h3"}

(***************************************************************************)
(* The requests a call sends to the network, in the order it sends them.   *)
(***************************************************************************)
\* GetLinksOptions
GetLinksOptions == {[timeout_ms |-> "none"]}

\* self.network.get_links(link_key, options)
network_get_links(link_key, options) == [hash |-> link_key, options |-> options]

\* The request of Cascade::fetch_links
fetch_links_request(link_key, options) == network_get_links(link_key, options)

\* dht_get_header that sends its request once more when it failed.
dht_get_header_requests_again(s, h, options, answer) ==
    IF found_local_delete(s, h) THEN <<>>
    ELSE IF answer.err
         THEN <<fetch_element_via_header_request(h, options),
                fetch_element_via_header_request(h, options)>>
         ELSE <<fetch_element_via_header_request(h, options)>>

\* The requests of Cascade::dht_get_header
dht_get_header_requests(s, h, options, answer) ==
    IF found_local_delete(s, h) THEN <<>>
    ELSE <<fetch_element_via_header_request(h, options)>>

\* The requests of Cascade::dht_get_entry
dht_get_entry_requests(s, e, options, answer, answer2) ==
    LET f == fetch_element_via_entry(s, answer)
        first == <<fetch_element_via_entry_request(e, options)>>
    IN  IF f.status # "Ok" THEN first
        ELSE LET found == oldest_live_element(f.s, e)
             IN  IF found.search = "Continue"
                 THEN first \o dht_get_header_requests(
                                   f.s, CHOOSE h \in found.header : TRUE, options, answer2)
                 ELSE first

\* The requests of Cascade::dht_get
dht_get_requests(s, hash, options, answer, answer2) ==
    IF hash \in EntryHashes THEN dht_get_entry_requests(s, hash, options, answer, answer2)
    ELSE dht_get_header_requests(s, hash, options, answer)

\* The requests of Cascade::retrieve_entry
retrieve_entry_requests(s, e, options) ==
    IF get_entry_local_raw(s, e) # {} THEN <<>>
    ELSE <<fetch_element_via_entry_request(e, options)>>

\* The requests of Cascade::retrieve_header
retrieve_header_requests(s, h, options) ==
    IF get_header_local_raw_with_sig(s, h) # {} THEN <<>>
    ELSE <<fetch_element_via_header_request(h, options)>>

\* The requests of Cascade::retrieve
retrieve_requests(s, hash, options) ==
    IF hash \in EntryHashes
    THEN IF get_element_local_raw_via_entry(s, hash) # {} THEN <<>>
         ELSE <<fetch_element_via_entry_request(hash, options)>>
    ELSE IF get_element_local_raw(s, hash) # {} THEN <<>>
         ELSE <<fetch_element_via_header_request(hash, options)>>

\* The requests of Cascade::dht_get_links
dht_get_links_requests(key, options) == <<fetch_links_request(key, options)>>

\* The requests of Cascade::get_link_details
get_link_details_requests(key, options) == <<fetch_links_request(key, options)>>

DhtGetSent ==
    /\ last.op = "idle"
    /\ \E hash \in EntryHashes \cup dht, options \in GetOptions :
          \E a \in AnswersFor(hash) :
              IF hash \in EntryHashes /\ continues(Now, hash, a)
              THEN \E a2 \in HeaderAnswers(dht) :
                      ReturnsSent("dht_get", hash, <<a, a2>>, dht_get(Now, hash, a, a2),
                                  options, dht_get_requests(Now, hash, options, a, a2))
              ELSE ReturnsSent("dht_get", hash, <<a>>, dht_get(Now, hash, a, a),
                               options, dht_get_requests(Now, hash, options, a, a))

RetrieveEntrySent ==
    /\ last.op = "idle"
    /\ \E e \in EntryHashes, options \in GetOptions, a \in EntryAnswers(dht) :
          ReturnsSent("retrieve_entry", e, <<a>>, retrieve_entry(Now, e, a),
                      options, retrieve_entry_requests(Now, e, options))

RetrieveHeaderSent ==
    /\ last.op = "idle"
    /\ \E h \in dht, options \in GetOptions, a \in HeaderAnswers(dht) :
          ReturnsSent("retrieve_header", h, <<a>>, retrieve_header(Now, h, a),
                      options, retrieve_header_requests(Now, h, options))

RetrieveSent ==
    /\ last.op = "idle"
    /\ \E hash \in EntryHashes \cup dht, options \in GetOptions :
          \E a \in AnswersFor(hash) :
              ReturnsSent("retrieve", hash, <<a>>, retrieve(Now, hash, a),
                          options, retrieve_requests(Now, hash, options))

GetDetailsSent ==
    /\ last.op = "idle"
    /\ \E hash \in EntryHashes \cup dht, options \in GetOptions :
          \E a \in AnswersFor(hash) :
              ReturnsSent("get_details", hash, <<a>>, get_details(Now, hash, a),
                          options, get_details_requests(hash, options))

DhtGetLinksSent ==
    /\ last.op = "idle"
    /\ \E key \in EntryHashes, options \in GetLinksOptions, a \in LinksAnswers(dht) :
          ReturnsSent("dht_get_links", key, <<a>>, dht_get_links(Now, key, a),
                      options, dht_get_links_requests(key, options))

GetLinkDetailsSent ==
    /\ last.op = "idle"
    /\ \E key \in EntryHashes, options \in GetLinksOptions, a \in LinksAnswers(dht) :
          ReturnsSent("get_link_details", key, <<a>>, get_link_details(Now, key, a),
                      options, get_link_details_requests(key, options))

\* The stores of Init, or a cache that calls of others have filled.
InitSent == Init \/ InitForeign

\* One call of one Cascade.
NextSent ==
    \/ DhtGetSent
    \/ RetrieveEntrySent
    \/ RetrieveHeaderSent
    \/ RetrieveSent
    \/ GetDetailsSent
    \/ DhtGetLinksSent
    \/ GetLinkDetailsSent

SpecSent == InitSent /\ [][NextSent]_vars

\* The call sent its second request for the header h: after the merge of
\* the first answer, the oldest header the cache metadata registers for the
\* entry asked for with no delete on it, whose element does not resolve
\* locally.
SecondIsForOldestLive(h) ==
    /\ h \in UndeletedIn(AfterEntryFetch.s.mc, last.arg)
    /\ \A o \in UndeletedIn(AfterEntryFetch.s.mc, last.arg) \ {h} : Before(h, o)
    /\ ~Resolvable(AfterEntryFetch.s, h)
    /\ last.sent[2] = network_get(h, last.options)

\* C29: no call sends a request again.  dht_get of a header, retrieve,
\* retrieve_entry, retrieve_header, get_details, dht_get_links and
\* get_link_details send at most one request; dht_get of an entry sends one
\* for the entry and at most one more, for its oldest live header when the
\* element of that header is not held; every request is answered once, and
\* after a failed answer the call sends nothing and fails.
C29_NoRequestAgain ==
    last.op # "idle" =>
        /\ Len(last.sent) = last.calls
        /\ Len(last.answers) = last.calls
        /\ (last.op = "dht_get" /\ last.arg \in EntryHashes) =>
              /\ Len(last.sent) \in {1, 2}
              /\ last.sent[1] = network_get(last.arg, last.options)
              /\ Len(last.sent) = 2 => \E h \in HeaderHashes : SecondIsForOldestLive(h)
        /\ ~(last.op = "dht_get" /\ last.arg \in EntryHashes) =>
              /\ Len(last.sent) <= 1
              /\ \A i \in 1..Len(last.sent) : last.sent[i].hash = last.arg
        /\ \A i \in 1..Len(last.answers) :
              last.answers[i].err =>
                  (i = Len(last.sent) /\ last.result.tag = "NetworkErr")

\* C29 happens: dht_get of e1 sent the request for e1 and then the request
\* for the oldest live header, the second request failed, and the call
\* failed with two requests sent.
C29_Witness ==
    /\ last.op = "dht_get"
    /\ last.arg = "e1"
    /\ Len(last.sent) = 2
    /\ ~last.answers[1].err
    /\ last.answers[2].err
    /\ last.result.tag = "NetworkErr"
    /\ last.calls = 2

(***************************************************************************)
(* holo_hash: the primitive hash types and their serde implementation.     *)
(* A hash type is serialized as its 3 byte prefix.                         *)
(***************************************************************************)
AGENT_PREFIX == <<132, 32, 36>>

ENTRY_PREFIX == <<132, 33, 36>>

DHTOP_PREFIX == <<132, 36, 36>>

DNA_PREFIX == <<132, 45, 36>>

NET_ID_PREFIX == <<132, 34, 36>>

HEADER_PREFIX == <<132, 41, 36>>

WASM_PREFIX == <<132, 42, 36>>

\* The types primitive_hash_type! is invoked for.
PrimitiveHashTypes == {"Agent", "Entry", "Dna", "DhtOp", "Header", "NetId", "Wasm"}

\* static_prefix that gives the NetId type the prefix of the Agent type.
static_prefix_shared(name) ==
    CASE name \in {"Agent", "NetId"} -> AGENT_PREFIX
      [] name = "Entry" -> ENTRY_PREFIX
      [] name = "Dna" -> DNA_PREFIX
      [] name = "DhtOp" -> DHTOP_PREFIX
      [] name = "Header" -> HEADER_PREFIX
      [] name = "Wasm" -> WASM_PREFIX

\* PrimitiveHashType::static_prefix
static_prefix(name) ==
    CASE name = "Agent" -> AGENT_PREFIX
      [] name = "Entry" -> ENTRY_PREFIX
      [] name = "Dna" -> DNA_PREFIX
      [] name = "DhtOp" -> DHTOP_PREFIX
      [] name = "Header" -> HEADER_PREFIX
      [] name = "NetId" -> NET_ID_PREFIX
      [] name = "Wasm" -> WASM_PREFIX

\* Serialize::serialize: serialize_bytes(self.get_prefix())
serialize(name) == static_prefix(name)

\* Visitor::visit_bytes: match v { $prefix => Ok($name), _ => panic!(..) }
visit_bytes(name, v) ==
    IF v = static_prefix(name) THEN Result("Ok", {name}) ELSE Result("Panic", {})

\* Visitor::visit_seq: the elements are collected and given to visit_bytes.
visit_seq(name, seq) == visit_bytes(name, seq)

\* Deserialize::deserialize: deserialize_bytes($visitor); the deserializer
\* calls visit_seq for bytes that come as a sequence and visit_bytes for
\* bytes, those that serialize wrote among them.
deserialize(name, form, v) ==
    IF form = "seq" THEN visit_seq(name, v) ELSE visit_bytes(name, v)

\* The bytes the prefixes are made of, and one byte of no prefix.
ByteChoices == {0, 32, 33, 34, 36, 41, 42, 45, 132}

\* The inputs of the deserializer.
ByteStrings == UNION {[1..n -> ByteChoices] : n \in 0..MaxBytes}

InitHashType ==
    /\ dht = {}
    /\ element_vault = EmptyElementBuf
    /\ meta_vault = EmptyMetadataBuf
    /\ element_cache = EmptyElementBuf
    /\ meta_cache = EmptyMetadataBuf
    /\ last = Idle
    /\ merging = NoMerges

\* A hash type is read from bytes; the record keeps what was read as what.
Decoded(name, form, v) ==
    /\ last' = [op |-> "deserialize", arg |-> v, form |-> form, hash_type |-> name,
                result |-> deserialize(name, form, v)]
    /\ UNCHANGED <<dht, element_vault, meta_vault, element_cache, meta_cache, merging>>

DeserializeBytes ==
    /\ last.op = "idle"
    /\ \E name \in PrimitiveHashTypes, v \in ByteStrings : Decoded(name, "bytes", v)

DeserializeSeq ==
    /\ last.op = "idle"
    /\ \E name \in PrimitiveHashTypes, v \in ByteStrings : Decoded(name, "seq", v)

\* A hash type is written and read back as another or the same type.
SerializeDeserialize ==
    /\ last.op = "idle"
    /\ \E written \in PrimitiveHashTypes, name \in PrimitiveHashTypes :
          Decoded(name, "serialized", serialize(written))

NextHashType ==
    \/ DeserializeBytes
    \/ DeserializeSeq
    \/ SerializeDeserialize

SpecHashType == InitHashType /\ [][NextHashType]_vars

\* The bytes of the last deserialization do not begin with the prefix of
\* the type they were read as.
WrongPrefix ==
    /\ last.op = "deserialize"
    /\ Len(last.arg) >= 3
    /\ SubSeq(last.arg, 1, 3) # static_prefix(last.hash_type)

\* C30 as stated: bytes whose 3 byte prefix is not that of the expected
\* type are rejected with a decode error returned to the caller, and yield
\* no hash type.
C30_WrongPrefixIsDecodeError ==
    WrongPrefix => (last.result.tag = "DecodeErr" /\ last.result.val = {})

\* C30 happens: the prefix of an Agent hash is read as an Entry hash type,
\* and the deserializer panics: no error is returned and no hash type.
C30_Witness ==
    /\ last.op = "deserialize"
    /\ last.hash_type = "Entry"
    /\ last.arg = AGENT_PREFIX
    /\ last.result = Result("Panic", {})

(***************************************************************************)
(* holo_hash: a HoloHash is a hash type and 36 bytes, the digest and its   *)
(* location; its full bytes are the prefix of the type and the 36 bytes.   *)
(***************************************************************************)
\* The 36 bytes of a hash; a name stands for each.
HashBytes == {"k1", "k2", "c1", "c2"}

\* HoloHash::from_raw_bytes_and_type
HoloHash(name, hash) == [hash_type |-> name, hash |-> hash]

\* HoloHash::into_inner
into_inner(h) == h.hash

\* HoloHash::retype
retype(h, name) == [h EXCEPT !.hash_type = name]

\* The bytes a HoloHash is written as: the prefix, then the 36 bytes.
get_full_bytes(h) == <<static_prefix(h.hash_type), h.hash>>

\* C31: the prefix of each of the seven primitive hash types is a constant
\* of three bytes that the type alone decides; the seven are pairwise
\* distinct, so hashes of two types over the same 36 bytes are written
\* differently, and a deserializer yields its type from the prefix of its
\* own type only: never from the bytes another type is serialized as.
C31_PrefixPerRole ==
    /\ \A a \in PrimitiveHashTypes :
          /\ Len(static_prefix(a)) = 3
          /\ serialize(a) = static_prefix(a)
          /\ \A b \in PrimitiveHashTypes \ {a} :
                /\ static_prefix(a) # static_prefix(b)
                /\ \A hash \in HashBytes :
                      get_full_bytes(HoloHash(a, hash)) # get_full_bytes(HoloHash(b, hash))
    /\ (last.op = "deserialize" /\ last.result.tag = "Ok") =>
          /\ last.result.val = {last.hash_type}
          /\ last.arg = serialize(last.hash_type)
          /\ \A t \in PrimitiveHashTypes \ {last.hash_type} : last.arg # serialize(t)
    /\ (last.op = "deserialize"
          /\ \E t \in PrimitiveHashTypes \ {last.hash_type} : last.arg = serialize(t)) =>
          last.result.val = {}

\* C31 happens: the Header type was serialized and read back as Header,
\* and the bytes are those of no other type.
C31_Witness ==
    /\ last.op = "deserialize"
    /\ last.form = "serialized"
    /\ last.hash_type = "Header"
    /\ last.arg = HEADER_PREFIX
    /\ last.result = Result("Ok", {"Header"})
    /\ \A t \in PrimitiveHashTypes \ {"Header"} : serialize(t) # last.arg

(***************************************************************************)
(* zome_types: the hash of an Entry.                                       *)
(***************************************************************************)
\* The 36 bytes of a key, and serialized content; MaxBytes bytes stand for
\* the 36.
KeyBytes == [1..MaxBytes -> ByteChoices]

\* AgentPubKey: a HoloHash of type Agent.
AgentPubKeys == {HoloHash("Agent", hash) : hash \in KeyBytes}

\* Entry::Agent(key)
AgentEntries == {[entry_type |-> "Agent", entry |-> k] : k \in AgentPubKeys}

\* Entry::App(bytes)
AppEntries == {[entry_type |-> "App", entry |-> c] : c \in ByteStrings}

RECURSIVE SumBytes(_)
SumBytes(bytes) == IF bytes = <<>> THEN 0 ELSE Head(bytes) + SumBytes(Tail(bytes))

\* The digest and location of serialized content: as many bytes as a key
\* has, computed from all of the content.
Digest(content) ==
    [i \in 1..MaxBytes |-> (SumBytes(content) + 31 * i + Len(content)) % 256]

\* hashable_content that hands the bytes of the key on as content to hash.
hashable_content_rehashed(entry) ==
    IF entry.entry_type = "Agent"
    THEN [kind |-> "Content", bytes |-> into_inner(entry.entry)]
    ELSE [kind |-> "Content", bytes |-> entry.entry]

\* HashableContent::hashable_content for Entry
hashable_content(entry) ==
    IF entry.entry_type = "Agent"
    THEN [kind |-> "Prehashed36", bytes |-> into_inner(entry.entry)]
    ELSE [kind |-> "Content", bytes |-> entry.entry]

\* HoloHash::with_data: prehashed bytes are taken as they are, content is
\* hashed; the type is hash_type(), Entry.
with_data(entry) ==
    LET content == hashable_content(entry)
    IN  IF content.kind = "Prehashed36" THEN HoloHash("Entry", content.bytes)
        ELSE HoloHash("Entry", Digest(content.bytes))

\* From<AgentPubKey> for EntryHash
entry_hash_from(agent_pub_key) == retype(agent_pub_key, "Entry")

\* From<EntryHash> for AgentPubKey
agent_pub_key_from(entry_hash) == retype(entry_hash, "Agent")

\* An entry is hashed; the Agent key of its hash is taken back.
Hashed(entry) ==
    /\ last' = [op |-> "hash_entry", arg |-> entry, result |-> with_data(entry),
                back |-> agent_pub_key_from(with_data(entry))]
    /\ UNCHANGED <<dht, element_vault, meta_vault, element_cache, meta_cache, merging>>

HashAgentEntry ==
    /\ last.op = "idle"
    /\ \E entry \in AgentEntries : Hashed(entry)

HashAppEntry ==
    /\ last.op = "idle"
    /\ \E entry \in AppEntries : Hashed(entry)

\* A key is converted to an EntryHash and back.
ConvertAgentKey ==
    /\ last.op = "idle"
    /\ \E k \in AgentPubKeys :
          last' = [op |-> "convert", arg |-> k, result |-> entry_hash_from(k),
                   back |-> agent_pub_key_from(entry_hash_from(k))]
    /\ UNCHANGED <<dht, element_vault, meta_vault, element_cache, meta_cache, merging>>

NextEntryHash ==
    \/ HashAgentEntry
    \/ HashAppEntry
    \/ ConvertAgentKey

SpecEntryHash == InitHashType /\ [][NextEntryHash]_vars

\* C32: the hash of the Agent entry of a key is the key converted to an
\* EntryHash: the 36 bytes of the key are the 36 bytes of the hash, taken
\* as they are and not hashed again, and converting a key to an EntryHash
\* and back gives the key, its bytes unchanged.
C32_AgentEntryHashIsAgentKey ==
    /\ (last.op = "hash_entry" /\ last.arg.entry_type = "Agent") =>
          /\ last.result = entry_hash_from(last.arg.entry)
          /\ last.result.hash_type = "Entry"
          /\ into_inner(last.result) = into_inner(last.arg.entry)
          /\ last.back = last.arg.entry
    /\ last.op = "convert" =>
          /\ last.result.hash_type = "Entry"
          /\ into_inner(last.result) = into_inner(last.arg)
          /\ last.back = last.arg

\* C32 happens: the Agent entry of a key was hashed, the hash has the bytes
\* of the key, which are not the digest of those bytes, and the key came
\* back from the hash.
C32_Witness ==
    /\ last.op = "hash_entry"
    /\ last.arg.entry_type = "Agent"
    /\ into_inner(last.result) = <<132, 32, 36>>
    /\ into_inner(last.result) # Digest(into_inner(last.arg.entry))
    /\ last.back = last.arg.entry

(***************************************************************************)
(* Validation callback results and their fold into one ValidateResult      *)
(* (guest_callback/validate.rs).  A result is a record of its variant and  *)
(* the payload of the variant: the message of an Invalid, the entry hashes *)
(* of an UnresolvedDependencies.                                           *)
(***************************************************************************)
Reasons == {"m1", "m2"}
Dependencies == {<<"e1">>, <<"e2">>}

Valid == [kind |-> "Valid", reason |-> "", deps |-> <<>>]
Invalid(i) == [kind |-> "Invalid", reason |-> i, deps |-> <<>>]
UnresolvedDependencies(ud) ==
    [kind |-> "UnresolvedDependencies", reason |-> "", deps |-> ud]

ValidateCallbackResults ==
    {Valid} \cup {Invalid(i) : i \in Reasons}
            \cup {UnresolvedDependencies(ud) : ud \in Dependencies}

CallbackResultLists ==
    UNION {[1..n -> ValidateCallbackResults] : n \in 0..MaxResults}

\* The closure of the fold with UnresolvedDependencies taking the place of
\* an Invalid accumulator.
fold_step_unresolved_wins(acc, x) ==
    CASE x.kind = "Invalid" -> Invalid(x.reason)
      [] x.kind = "UnresolvedDependencies" -> UnresolvedDependencies(x.deps)
      [] OTHER -> acc

\* The closure of the fold with a Valid result resetting the accumulator.
fold_step_valid_resets(acc, x) ==
    CASE x.kind = "Invalid" -> Invalid(x.reason)
      [] x.kind = "UnresolvedDependencies" ->
            IF acc.kind = "Invalid" THEN acc
            ELSE UnresolvedDependencies(x.deps)
      [] OTHER -> Valid

\* The closure of the fold: |acc, x| match x { ... }
fold_step(acc, x) ==
    CASE x.kind = "Invalid" -> Invalid(x.reason)
      [] x.kind = "UnresolvedDependencies" ->
            IF acc.kind = "Invalid" THEN acc
            ELSE UnresolvedDependencies(x.deps)
      [] OTHER -> acc

RECURSIVE fold(_, _)
fold(acc, callback_results) ==
    IF callback_results = <<>> THEN acc
    ELSE fold(fold_step(acc, Head(callback_results)), Tail(callback_results))

\* impl From<Vec<ValidateCallbackResult>> for ValidateResult
validate_result_from(callback_results) == fold(Valid, callback_results)

\* results.shuffle(..): the same results in any order
Shuffles(results) ==
    {[i \in 1..Len(results) |-> results[p[i]]] :
        p \in {q \in [1..Len(results) -> 1..Len(results)] :
                  \A i, j \in 1..Len(results) : i # j => q[i] # q[j]}}

\* results.push(extra) for an extra chosen among the results
WithExtra(results) == {Append(results, results[i]) : i \in 1..Len(results)}

Folded(op, results, other) ==
    /\ last.op = "idle"
    /\ last' = [op |-> op, arg |-> results, other |-> other,
                result |-> validate_result_from(results),
                other_result |-> validate_result_from(other)]
    /\ UNCHANGED <<dht, element_vault, meta_vault, element_cache,
                   meta_cache, merging>>

FoldResults ==
    \E results \in CallbackResultLists : Folded("fold", results, results)

FoldShuffled ==
    \E results \in CallbackResultLists :
        \E other \in Shuffles(results) : Folded("shuffled", results, other)

FoldWithExtra ==
    \E results \in CallbackResultLists :
        \E other \in WithExtra(results) : Folded("extra", results, other)

NextValidate ==
    \/ FoldResults
    \/ FoldShuffled
    \/ FoldWithExtra

SpecValidate == InitHashType /\ [][NextValidate]_vars

FoldOps == {"fold", "shuffled", "extra"}

KindsOf(results) == {results[i].kind : i \in 1..Len(results)}

\* C33: the fold of a list of callback results is Invalid if any result is
\* Invalid, otherwise UnresolvedDependencies if any result is
\* UnresolvedDependencies, otherwise Valid; the empty list folds to Valid.
C33_InvalidThenUnresolvedThenValid ==
    last.op \in FoldOps =>
        /\ last.result.kind =
              IF "Invalid" \in KindsOf(last.arg) THEN "Invalid"
              ELSE IF "UnresolvedDependencies" \in KindsOf(last.arg)
                   THEN "UnresolvedDependencies"
                   ELSE "Valid"
        /\ last.arg = <<>> => last.result = Valid

C33_Witness ==
    /\ last.op = "fold"
    /\ Len(last.arg) = 3
    /\ last.arg[1].kind = "Invalid"
    /\ last.arg[2].kind = "UnresolvedDependencies"
    /\ last.arg[3].kind = "Valid"
    /\ last.result.kind = "Invalid"

\* The last result of a kind in a list: the one whose payload the fold keeps.
LastOfKind(results, kind) ==
    results[CHOOSE i \in 1..Len(results) :
                /\ results[i].kind = kind
                /\ \A j \in (i + 1)..Len(results) : results[j].kind # kind]

DeletedLocally ==
    {h \in HeaderHashes :
        get_deletes_on_header(meta_vault, h) # {}
            \/ get_deletes_on_header(meta_cache, h) # {}}

\* C35 as stated: dht_get_entry returns no Element whose header has a
\* delete registered in the vault metadata or in the cache metadata when
\* the call returns.
C35_NoDeletedHeaderReturned ==
    (last.op = "dht_get_entry" /\ last.result.tag = "Ok") =>
        \A el \in last.result.val : el.header \notin DeletedLocally

\* The case of C35: the vault metadata registers the delete of a header,
\* the cache metadata does not, and dht_get_entry has returned.
C35_Witness ==
    /\ last.op = "dht_get_entry"
    /\ last.result.tag = "Ok"
    /\ last.result.val # {}
    /\ get_deletes_on_header(meta_vault, "h2") # {}
    /\ get_deletes_on_header(meta_cache, "h2") = {}
    /\ "h2" \in get_headers(meta_cache, last.arg)

\* The stores when the last request of the call that returned was issued:
\* those the call started from, or for the second request of dht_get_entry
\* those left by the merge of the first answer.
WhenLastRequestIssued ==
    IF last.calls = 1 THEN last.pre ELSE AfterEntryFetch.s

\* C36: a failed network request merges nothing.  When the answer to the
\* last request of a call is an error, the call returns that error and the
\* cache element store and the cache metadata are exactly as they were when
\* the request was issued: nothing is written after it, and what an earlier
\* request of the same call merged stays.
C36_FailedRequestMergesNothing ==
    (last.op # "idle" /\ last.calls >= 1 /\ last.answers[last.calls].err) =>
        /\ last.result.tag = "NetworkErr"
        /\ element_cache = WhenLastRequestIssued.ec
        /\ meta_cache = WhenLastRequestIssued.mc
        /\ element_vault = last.pre.ev
        /\ meta_vault = last.pre.mv

C36_Witness ==
    /\ last.op = "dht_get"
    /\ last.calls = 2
    /\ last.answers[2].err
    /\ last.result.tag = "NetworkErr"
    /\ meta_cache # last.pre.mc
    /\ meta_cache = AfterEntryFetch.s.mc

\* The headers the cache metadata registers, in any of its records.
RegisteredInCache == UNION {meta_cache[r] : r \in MetaRecords}

\* C37: at every point of every merge, between the writes of interleaved
\* calls and after a call was abandoned part-way, every header the cache
\* metadata registers has its Element in the cache element store: the put
\* of an element or of an element group comes before the registrations.
C37_RegisteredHeadersAreHeld ==
    merging # NoMerges => RegisteredInCache \subseteq element_cache.headers

\* C37 happens: one call was abandoned after its put and some but not all
\* of its registrations, the other is part-way through its own merge, and
\* the metadata registers a header the cache did not begin with.
C37_Witness ==
    /\ merging # NoMerges
    /\ \E c \in Calls :
          /\ merging.calls[c].state = "abandoned"
          /\ merging.calls[c].written \in
                 2..(Len(merge_writes(merging.calls[c].merge)) - 1)
          /\ \A o \in Calls \ {c} :
                /\ merging.calls[o].state = "merging"
                /\ merging.calls[o].written > 0
    /\ RegisteredInCache \ merging.base.mc.store_element # {}
    /\ RegisteredInCache \subseteq element_cache.headers

\* The headers of entry e that the cache or the vault metadata of the
\* stores s registers and that resolve locally in s.
HeldHeadersOf(s, e) ==
    {h \in get_headers(s.mc, e) \cup get_headers(s.mv, e) : Resolvable(s, h)}

\* The result is the Element of the newest header of hs and of no other.
ReturnsNewestOf(hs) ==
    /\ last.result.tag = "Ok"
    /\ Cardinality(last.result.val) = 1
    /\ \E h \in hs :
          /\ \A o \in hs \ {h} : Before(o, h)
          /\ \A el \in last.result.val : el.header = h

\* C38: retrieve of an entry hash takes the headers the cache and the vault
\* metadata register for the entry and returns the Element of the newest
\* one (by timestamp, then header hash) that resolves locally; an older
\* one is returned only when no newer one resolves, and the network is
\* asked only when none resolves, after which the same rule is applied to
\* the stores with the answer merged.
C38_RetrieveNewestHeld ==
    (last.op = "retrieve" /\ last.arg \in EntryHashes) =>
        IF HeldHeadersOf(last.pre, last.arg) # {}
        THEN /\ last.calls = 0
             /\ Now = last.pre
             /\ ReturnsNewestOf(HeldHeadersOf(last.pre, last.arg))
        ELSE /\ last.calls = 1
             /\ last.result.tag = "Ok" =>
                   IF HeldHeadersOf(Now, last.arg) # {}
                   THEN ReturnsNewestOf(HeldHeadersOf(Now, last.arg))
                   ELSE last.result.val = {}

\* C38 happens: a header of the entry resolves locally, a newer one is
\* registered and not held, and retrieve returned the Element of the older
\* one without the network.
C38_Witness ==
    /\ last.op = "retrieve"
    /\ last.arg = "e1"
    /\ last.calls = 0
    /\ HeldHeadersOf(last.pre, "e1") # {}
    /\ \E n \in (get_headers(last.pre.mc, "e1") \cup get_headers(last.pre.mv, "e1"))
                    \ HeldHeadersOf(last.pre, "e1") :
          \A h \in HeldHeadersOf(last.pre, "e1") : Before(h, n)
    /\ ReturnsNewestOf(HeldHeadersOf(last.pre, "e1"))

(***************************************************************************)
(* Answers that mix the variants of GetElementResponse: a request by       *)
(* header hash answered with entry responses among the header responses,   *)
(* a request by entry hash answered with header responses among the entry  *)
(* responses.                                                              *)
(***************************************************************************)
MixedAnswers(pub) ==
    {NetOk(l) : l \in Several(GetHeaderItems(pub) \cup GetEntryFullItems(pub)
                                  \cup OtherItems)}

\* An empty vault, and a cache that is empty or has one element merged.
InitMixed ==
    /\ dht \in DhtChoices
    /\ element_vault = EmptyElementBuf
    /\ meta_vault = EmptyMetadataBuf
    /\ \E base \in BaseCaches(dht) :
          /\ element_cache = base.ec
          /\ meta_cache = base.mc
    /\ last = Idle
    /\ merging = NoMerges

DhtGetHeaderMixed ==
    /\ last.op = "idle"
    /\ \E h \in dht, a \in MixedAnswers(dht) :
          Returns("dht_get_header", h, <<a>>, dht_get(Now, h, a, a))

GetHeaderDetailsMixed ==
    /\ last.op = "idle"
    /\ \E h \in dht, a \in MixedAnswers(dht) :
          Returns("get_header_details", h, <<a>>, get_details(Now, h, a))

DhtGetEntryMixed ==
    /\ last.op = "idle"
    /\ \E e \in EntryHashes, a \in MixedAnswers(dht) :
          IF continues(Now, e, a)
          THEN \E a2 \in HeaderAnswers(dht) :
                  Returns("dht_get_entry", e, <<a, a2>>, dht_get(Now, e, a, a2))
          ELSE Returns("dht_get_entry", e, <<a>>, dht_get(Now, e, a, a))

GetEntryDetailsMixed ==
    /\ last.op = "idle"
    /\ \E e \in EntryHashes, a \in MixedAnswers(dht) :
          Returns("get_entry_details", e, <<a>>, get_details(Now, e, a))

\* One call, answered with a list of mixed variants.
NextMixed ==
    \/ DhtGetHeaderMixed
    \/ GetHeaderDetailsMixed
    \/ DhtGetEntryMixed
    \/ GetEntryDetailsMixed

SpecMixed == InitMixed /\ [][NextMixed]_vars

\* The items of the answer that are of the wrong kind for the request of
\* the last call: a response that is no header response to a request by
\* header hash, a header response to a request by entry hash.
WrongKindItems ==
    {i \in 1..Len(ItemsAnswered) :
        IF last.op \in HeaderFetchOps
        THEN ItemsAnswered[i].kind # "GetHeader"
        ELSE ItemsAnswered[i].kind = "GetHeader"}

\* The headers and the entries that the items is of the answer carry for
\* the request of the last call.
CarriedHeaders(is) ==
    IF last.op \in HeaderFetchOps
    THEN UNION {{ItemsAnswered[i].header} \cup ItemsAnswered[i].deleted : i \in is}
    ELSE UNION {ItemsAnswered[i].live_headers \cup ItemsAnswered[i].deletes : i \in is}

CarriedEntries(is) ==
    IF last.op \in HeaderFetchOps
    THEN UNION {IF ItemsAnswered[i].with_entry
                THEN entry_data(ItemsAnswered[i].header) ELSE {} : i \in is}
    ELSE {ItemsAnswered[i].entry : i \in is}

\* The cache is the cache the call began with and what the items is of the
\* answer carry, no more and no less.
CacheIsPreWith(is) ==
    /\ element_cache.headers = last.pre.ec.headers \cup CarriedHeaders(is)
    /\ element_cache.entries = last.pre.ec.entries \cup CarriedEntries(is)
    /\ meta_cache = integrate_all(CarriedHeaders(is), last.pre.mc)

\* The last call made its request by header or by entry hash, the answer
\* had an item of the wrong kind, and an answer to a request by entry hash
\* had no item of a variant fetch_element_via_entry has no arm for.
WrongKindAnswered ==
    /\ last.op \in HeaderFetchOps \cup EntryFetchOps
    /\ last.calls = 1
    /\ ~last.answers[1].err
    /\ WrongKindItems # {}
    /\ last.op \in EntryFetchOps =>
           \A i \in 1..Len(ItemsAnswered) : ItemsAnswered[i].kind # "GetEntryCollapsed"

\* C39: a response item of the wrong kind is skipped.  It merges nothing
\* into the cache and raises no error, and the items of the right kind of
\* the same list, before it and after it, are merged: after the call the
\* cache is what it was with what the items of the right kind carry.
C39_WrongKindSkipped ==
    WrongKindAnswered =>
        /\ last.result.tag = "Ok"
        /\ CacheIsPreWith(IF last.op \in HeaderFetchOps
                          THEN WireElementItems ELSE RawEntryItems)

\* C39 happens: a request by entry hash is answered with a header response
\* that carries h1 and then an entry response that reports h2; h2 is merged
\* and h1 is not.
C39_Witness ==
    /\ WrongKindAnswered
    /\ last.op = "get_entry_details"
    /\ WrongKindItems = {1}
    /\ ItemsAnswered[1].some
    /\ ItemsAnswered[1].header = "h1"
    /\ RawEntryItems = {2}
    /\ ItemsAnswered[2].live_headers = {"h2"}
    /\ "h2" \in element_cache.headers
    /\ "h1" \notin element_cache.headers
    /\ last.result.tag = "Ok"

\* The items of the answer that are neither a full-entry response nor a
\* header response.
UnimplementedItems ==
    {i \in 1..Len(ItemsAnswered) :
        ItemsAnswered[i].kind \notin {"GetEntryFull", "GetHeader"}}

\* The first of them.
FirstUnimplemented ==
    CHOOSE k \in UnimplementedItems : \A i \in UnimplementedItems : k <= i

\* The last call made its request by entry hash and the answer had an item
\* that is neither a full-entry response nor a header response.
UnimplementedAnswered ==
    /\ last.op \in EntryFetchOps
    /\ last.calls >= 1
    /\ ~last.answers[1].err
    /\ UnimplementedItems # {}

\* C40: while fetching by entry hash, a response item that is neither a
\* full-entry response nor a header response aborts the call with a panic:
\* the call returns no value, neither None nor an error; the items before
\* that item stay merged in the cache and no item after it is merged.
C40_OtherResponsePanics ==
    UnimplementedAnswered =>
        /\ last.result = Result("Panic", {})
        /\ last.calls = 1
        /\ CacheIsPreWith({i \in RawEntryItems : i < FirstUnimplemented})

\* C40 happens: the answer is an entry response that reports h2, then a
\* collapsed-entry response; the call panicked and h2 is in the cache.
C40_Witness ==
    /\ UnimplementedAnswered
    /\ FirstUnimplemented = 2
    /\ ItemsAnswered[2].kind = "GetEntryCollapsed"
    /\ RawEntryItems = {1}
    /\ ItemsAnswered[1].live_headers = {"h2"}
    /\ "h2" \notin last.pre.ec.headers
    /\ "h2" \in element_cache.headers
    /\ "h2" \in meta_cache.headers
    /\ last.result.tag = "Panic"

====
